---- MODULE Spec2Model ----
(***************************************************************************)
(* A model of VIME's table access layer (python/data_loader.py): the      *)
(* DataLoader session with its pandas ("structured") and h5py ("raw")     *)
(* backends, the listing of tables and the conversion of raw datasets to  *)
(* tabular values.                                                         *)
(*                                                                         *)
(* Names of tables and datasets are modelled as sequences of one-character *)
(* strings, so that "/g/a" is <<"/", "g", "/", "a">> and lstrip("/") and   *)
(* the splitting of a path are computed, not assumed.                      *)
(***************************************************************************)
EXTENDS Integers, Sequences, FiniteSets, TLC

\* Python's None where the field otherwise holds an object.
None == [kind |-> "None"]

\* Python's None where the field otherwise holds a string (backend, filepath).
NoneStr == "None"

\* Python's None where the field otherwise holds the name of a table.
NoName == <<>>

\* The marker "?" that _get_table_list_pandas reports for an unknown count;
\* counts are naturals, so -1 stands for it.
Unknown == -1

----------------------------------------------------------------------------
(* Bounds of the model.                                                    *)

\* Largest number of tables in a pandas store.
MaxTables == 3
\* Largest rank of a raw dataset.
MaxRank == 3
\* Largest extent of one dimension of a raw dataset (0..MaxDim).
MaxDim == 1
\* Largest number of fields of a compound dataset.
MaxFields == 2
\* Largest nesting depth of groups in a raw file.
MaxDepth == 1
\* Largest number of underlying handles that are live while no longer
\* referenced by the loader; an open is not started beyond it.
MaxLeaked == 1

----------------------------------------------------------------------------
(* Helpers on sequences.                                                   *)

RECURSIVE SeqProd(_)
SeqProd(s) == IF s = <<>> THEN 1 ELSE Head(s) * SeqProd(Tail(s))

\* All sequences over S of length 0..n.
SeqsUpTo(S, n) == UNION {[1..k -> S] : k \in 0..n}

----------------------------------------------------------------------------
(* Results of a call: a returned value or a raised exception.              *)

Return(v) == [raised |-> FALSE, value |-> v]
Raise(e) == [raised |-> TRUE, value |-> [kind |-> "exception", type |-> e]]

----------------------------------------------------------------------------
(* The structured backend: what a pd.HDFStore handle holds.                *)

\* hasattr(storer, ...) is false.
NoAttr == [kind |-> "noattr"]
\* The attribute is there and holds the number v.
Attr(v) == [kind |-> "attr", value |-> v]
\* The attribute is there but int() raises on it (nrows of a fixed-format
\* storer is None).
BadValue == [kind |-> "bad"]
\* storer.attrs.non_index_axes is there and empty.
NoAxes == [kind |-> "noaxes"]

\* Keys of the tables a store declares.
PandasKeys == {<<"/", "x">>, <<"/", "y">>, <<"/", "z">>}

\* (rows, cols) of the tables a store holds.
PandasShapes == {<<2, 3>>}

\* The storers get_storer can hand out for a table of r rows and c columns:
\* get_storer raising, a table-format storer (nrows and ncols), a storer
\* with nrows and non_index_axes only, one whose nrows is None, one whose
\* non_index_axes is empty, and one without any of the attributes. fast is
\* what a raw read finds on the storer: "table" when storer.table is a
\* PyTables table, "array" when the storer has _read_array and no table,
\* "none" when it has neither (a fixed-format storer).
Storers(r, c) ==
  { [raises |-> TRUE,  nrows |-> NoAttr,   ncols |-> NoAttr,  axes |-> NoAttr,
     fast |-> "none"],
    [raises |-> FALSE, nrows |-> Attr(r),  ncols |-> Attr(c), axes |-> Attr(c),
     fast |-> "table"],
    [raises |-> FALSE, nrows |-> Attr(r),  ncols |-> NoAttr,  axes |-> Attr(c),
     fast |-> "array"],
    [raises |-> FALSE, nrows |-> BadValue, ncols |-> Attr(c), axes |-> NoAttr,
     fast |-> "none"],
    [raises |-> FALSE, nrows |-> Attr(r),  ncols |-> NoAttr,  axes |-> NoAxes,
     fast |-> "table"],
    [raises |-> FALSE, nrows |-> NoAttr,   ncols |-> NoAttr,  axes |-> NoAttr,
     fast |-> "none"] }

StoredTables ==
  UNION { { [name |-> k, rows |-> sh[1], cols |-> sh[2], storer |-> st] :
              st \in Storers(sh[1], sh[2]) } :
          k \in PandasKeys, sh \in PandasShapes }

\* The order in which keys() enumerates the keys (PyTables walks the groups
\* by name).
PandasKeyOrder == <<<<"/", "x">>, <<"/", "y">>, <<"/", "z">>>>

KeyIndex(key) == CHOOSE i \in 1..Len(PandasKeyOrder) : PandasKeyOrder[i] = key

\* The contents of a store: its tables in the order keys() enumerates them,
\* no key twice.
StoreContents ==
  { s \in SeqsUpTo(StoredTables, MaxTables) :
      \A i, j \in 1..Len(s) :
         i < j => KeyIndex(s[i].name) < KeyIndex(s[j].name) }

\* An open pd.HDFStore.
HDFStore(tables) == [kind |-> "HDFStore", tables |-> tables]

\* store.keys()
HDFStore_keys(store) == [i \in 1..Len(store.tables) |-> store.tables[i].name]

\* name in store: a key matches with or without its leading "/".
HDFStore_contains(store, name) ==
  \E i \in 1..Len(store.tables) :
     name = store.tables[i].name \/ name = Tail(store.tables[i].name)

\* The tabular value pandas and the conversions below produce: its number of
\* rows and columns and how its columns are labelled.
DataFrame(rows, cols, labels) ==
  [kind |-> "DataFrame", rows |-> rows, cols |-> cols, labels |-> labels]

\* store[name] for a name that is in the store.
HDFStore_getitem(store, name) ==
  LET i == CHOOSE i \in 1..Len(store.tables) :
             name = store.tables[i].name \/ name = Tail(store.tables[i].name)
  IN DataFrame(store.tables[i].rows, store.tables[i].cols, "stored")

\* store.get_storer(key) for a key of keys(), with or without its leading
\* "/".
HDFStore_get_storer(store, key) ==
  LET i == CHOOSE i \in 1..Len(store.tables) :
             key = store.tables[i].name \/ key = Tail(store.tables[i].name)
  IN store.tables[i].storer

----------------------------------------------------------------------------
(* The raw backend: what an h5py.File handle holds.                        *)

\* Shapes of datasets; the spec's example shape is among them.
Shapes == SeqsUpTo(0..MaxDim, MaxRank) \cup {<<4, 3, 2>>}

\* A dataset; nfields is the number of fields of its compound dtype, 0 when
\* the dtype is plain (dtype.names is None).
Dataset(shape, nfields) ==
  [kind |-> "dataset", shape |-> shape, nfields |-> nfields, members |-> <<>>]

\* A group and its members in the order of their names.
Group(members) ==
  [kind |-> "group", shape |-> <<>>, nfields |-> 0, members |-> members]

Member(name, node) == [name |-> name, node |-> node]

Datasets == {Dataset(sh, n) : sh \in Shapes, n \in 0..MaxFields}

\* The dataset used where a file nests groups.
NestDatasets == {Dataset(<<2, 1>>, 0)}

\* Member lists with groups nested up to depth d: "a" is a dataset when it
\* is there, "g" a dataset or a group of such a list.
RECURSIVE MemberLists(_)
MemberLists(d) ==
  LET Nodes == NestDatasets \cup
               (IF d = 0 THEN {} ELSE {Group(m) : m \in MemberLists(d - 1)})
  IN {<<>>}
     \cup {<<Member("a", n)>> : n \in NestDatasets}
     \cup {<<Member("g", n)>> : n \in Nodes}
     \cup {<<Member("a", n1), Member("g", n2)>> :
              n1 \in NestDatasets, n2 \in Nodes}

\* The hierarchies a raw file can hold: nested groups, and every dataset at
\* the root.
RawContents ==
  MemberLists(MaxDepth) \cup {<<Member("a", d)>> : d \in Datasets}

\* An open h5py.File.
H5File(members) == [kind |-> "File", members |-> members]

\* The (name, obj) pairs visititems passes to its callback: every object
\* below the group, a group before its members, named by its path relative
\* to the group.
RECURSIVE visititems(_, _)
visititems(members, prefix) ==
  IF members = <<>> THEN <<>>
  ELSE LET m == Head(members)
           path == prefix \o <<m.name>>
       IN <<[name |-> path, obj |-> m.node]>>
          \o (IF m.node.kind = "group"
              THEN visititems(m.node.members, path \o <<"/">>)
              ELSE <<>>)
          \o visititems(Tail(members), prefix)

\* The components of a path, split at "/"; empty components are dropped as
\* HDF5 does.
RECURSIVE SplitPath(_, _)
SplitPath(key, cur) ==
  IF key = <<>> THEN (IF cur = <<>> THEN <<>> ELSE <<cur>>)
  ELSE IF Head(key) = "/"
       THEN (IF cur = <<>> THEN <<>> ELSE <<cur>>) \o SplitPath(Tail(key), <<>>)
       ELSE SplitPath(Tail(key), cur \o <<Head(key)>>)

\* The object a list of path components leads to from a node, or None.
RECURSIVE Resolve(_, _)
Resolve(node, comps) ==
  IF comps = <<>> THEN node
  ELSE IF node.kind # "group" THEN None
  ELSE LET hits == {i \in 1..Len(node.members) :
                      <<node.members[i].name>> = Head(comps)}
       IN IF hits = {} THEN None
          ELSE Resolve(node.members[CHOOSE i \in hits : TRUE].node, Tail(comps))

\* key in h5file
H5File_contains(h5file, key) ==
  Resolve(Group(h5file.members), SplitPath(key, <<>>)) # None

\* h5file[key] for a key that is in the file.
H5File_getitem(h5file, key) ==
  Resolve(Group(h5file.members), SplitPath(key, <<>>))

\* str.lstrip("/"): every leading "/" is removed.
RECURSIVE lstrip(_)
lstrip(name) ==
  IF name # <<>> /\ Head(name) = "/" THEN lstrip(Tail(name)) ELSE name

----------------------------------------------------------------------------
(* The calls into pandas, numpy and the handles that can fail.             *)

\* How a close() of an underlying handle can end: it returns or it raises.
\* Either way close() has been called on the handle, which then no longer
\* counts as live.
CloseOutcomes == {"closed", "raised"}

\* How table.read() and storer._read_array() can end.
ReadOutcomes == {"returns", "raises"}

\* pd.HDFStore(filepath, mode="r") followed by store.keys(): the open
\* raises, or the store opens and keys() raises, or the store opens and
\* enumerates its (possibly zero) tables.
OpenFails == [kind |-> "fails"]
KeysRaise == [kind |-> "keys_raise"]

\* pd.DataFrame({col: arr[col] for col in arr.dtype.names}): the fields of a
\* rank-1 array are its columns; the fields of a scalar are scalars and
\* those of an array of rank 2 or more are not 1-dimensional, and pandas
\* raises ValueError on both.
DataFrame_of_fields(shape, nfields) ==
  IF Len(shape) = 1
  THEN Return(DataFrame(shape[1], nfields, "fields"))
  ELSE Raise("ValueError")

\* arr.reshape(arr.shape[0], -1): numpy cannot infer the -1 extent when
\* shape[0] is 0 and raises ValueError; otherwise it is the product of the
\* trailing extents.
ndarray_reshape(shape) ==
  IF shape[1] = 0
  THEN Raise("ValueError")
  ELSE Return(<<shape[1], SeqProd(Tail(shape))>>)

----------------------------------------------------------------------------
(* DataLoader.                                                              *)

\* DataLoader.__init__
DataLoader_init ==
  [store |-> None, h5file |-> None, backend |-> NoneStr, filepath |-> NoneStr]

\* DataLoader.is_open
is_open(self) == self.backend # NoneStr

\* close as it would be without the reset of self.store after closing it.
close_keeps_store(self, sc, hc) ==
  LET n1 == IF self.store # None THEN 1 ELSE 0
      s2 == IF self.h5file # None THEN [self EXCEPT !.h5file = None] ELSE self
      n2 == IF self.h5file # None THEN 1 ELSE 0
  IN [self |-> [s2 EXCEPT !.backend = NoneStr, !.filepath = NoneStr],
      raised |-> FALSE,
      closed |-> n1 + n2]

\* DataLoader.close with the outcomes sc and hc of the close() of the store
\* and of the h5py file: both exceptions are swallowed. closed counts the
\* handles close() was called on.
close(self, sc, hc) ==
  LET s1 == IF self.store # None THEN [self EXCEPT !.store = None] ELSE self
      n1 == IF self.store # None THEN 1 ELSE 0
      s2 == IF s1.h5file # None THEN [s1 EXCEPT !.h5file = None] ELSE s1
      n2 == IF s1.h5file # None THEN 1 ELSE 0
  IN [self |-> [s2 EXCEPT !.backend = NoneStr, !.filepath = NoneStr],
      raised |-> FALSE,
      closed |-> n1 + n2]

\* A table descriptor.
Descriptor(name, rows, cols) == [name |-> name, rows |-> rows, cols |-> cols]

\* The body of the loop of _get_table_list_pandas for one key: the metadata
\* read inside try, both counts "?" when it raises.
pandas_metadata(store, key) ==
  LET storer == HDFStore_get_storer(store, key)
      raises == storer.raises \/ storer.nrows = BadValue
      nrows == IF storer.nrows # NoAttr THEN storer.nrows.value ELSE Unknown
      ncols == IF storer.ncols # NoAttr THEN storer.ncols.value
               ELSE IF storer.axes # NoAttr
                    THEN (IF storer.axes # NoAxes
                          THEN storer.axes.value ELSE Unknown)
                    ELSE Unknown
  IN IF raises
     THEN Descriptor(key, Unknown, Unknown)
     ELSE Descriptor(key, nrows, ncols)

\* pandas_loop as it would be with the try around the whole loop: the first
\* table whose metadata read raises ends the listing.
RECURSIVE pandas_loop_aborts(_, _, _)
pandas_loop_aborts(store, keys, tables) ==
  IF keys = <<>> THEN tables
  ELSE LET storer == HDFStore_get_storer(store, Head(keys))
       IN IF storer.raises \/ storer.nrows = BadValue THEN tables
          ELSE pandas_loop_aborts(store, Tail(keys),
                 Append(tables, pandas_metadata(store, Head(keys))))

\* The loop of _get_table_list_pandas over the keys.
RECURSIVE pandas_loop(_, _, _)
pandas_loop(store, keys, tables) ==
  IF keys = <<>> THEN tables
  ELSE pandas_loop(store, Tail(keys),
                   Append(tables, pandas_metadata(store, Head(keys))))

\* DataLoader._get_table_list_pandas
_get_table_list_pandas(self) ==
  pandas_loop(self.store, HDFStore_keys(self.store), <<>>)

\* _visitor as it would be without the isinstance test: groups, whose shape
\* is taken as empty, are reported too.
_visitor_reports_groups(datasets, name, obj) ==
  LET shape == obj.shape
      nrows == IF Len(shape) >= 1 THEN shape[1] ELSE 1
      ncols == IF Len(shape) >= 2 THEN shape[2] ELSE 1
  IN Append(datasets, Descriptor(<<"/">> \o name, nrows, ncols))

\* The callback _visitor of _get_table_list_h5py.
_visitor(datasets, name, obj) ==
  IF obj.kind = "dataset"
  THEN LET shape == obj.shape
           nrows == IF Len(shape) >= 1 THEN shape[1] ELSE 1
           ncols == IF Len(shape) >= 2 THEN shape[2] ELSE 1
       IN Append(datasets, Descriptor(<<"/">> \o name, nrows, ncols))
  ELSE datasets

\* visititems calling _visitor on each object in turn.
RECURSIVE h5py_loop(_, _)
h5py_loop(visited, datasets) ==
  IF visited = <<>> THEN datasets
  ELSE h5py_loop(Tail(visited),
                 _visitor(datasets, Head(visited).name, Head(visited).obj))

\* DataLoader._get_table_list_h5py
_get_table_list_h5py(self) ==
  h5py_loop(visititems(self.h5file.members, <<>>), <<>>)

\* DataLoader.list_tables
list_tables(self) ==
  IF self.backend = "h5py" THEN _get_table_list_h5py(self)
  ELSE IF self.backend = "pandas" THEN _get_table_list_pandas(self)
  ELSE <<>>

\* The conversion of the array of a dataset to a DataFrame in
\* _h5py_read_dataset.
h5py_to_frame(ds) ==
  IF ds.nfields # 0
  THEN DataFrame_of_fields(ds.shape, ds.nfields)
  ELSE IF Len(ds.shape) = 0
  THEN Return(DataFrame(1, 1, "value"))
  ELSE IF Len(ds.shape) = 1
  THEN Return(DataFrame(ds.shape[1], 1, "range"))
  ELSE IF Len(ds.shape) = 2
  THEN Return(DataFrame(ds.shape[1], ds.shape[2], "range"))
  ELSE LET reshaped == ndarray_reshape(ds.shape)
       IN IF reshaped.raised THEN reshaped
          ELSE Return(DataFrame(reshaped.value[1], reshaped.value[2], "range"))

\* _h5py_read_dataset as it would be without the isinstance test: reading
\* a group as an array raises.
_h5py_read_dataset_reads_groups(self, name) ==
  LET key == lstrip(name)
  IN IF ~H5File_contains(self.h5file, key) THEN Return(None)
     ELSE LET ds == H5File_getitem(self.h5file, key)
          IN IF ds.kind # "dataset" THEN Raise("TypeError")
             ELSE h5py_to_frame(ds)

\* DataLoader._h5py_read_dataset
_h5py_read_dataset(self, name) ==
  LET key == lstrip(name)
  IN IF ~H5File_contains(self.h5file, key) THEN Return(None)
     ELSE LET ds == H5File_getitem(self.h5file, key)
          IN IF ds.kind # "dataset" THEN Return(None)
             ELSE h5py_to_frame(ds)

\* DataLoader.load_table
load_table(self, name) ==
  IF self.backend = "pandas"
  THEN (IF ~HDFStore_contains(self.store, name)
        THEN Return(None)
        ELSE Return(HDFStore_getitem(self.store, name)))
  ELSE IF self.backend = "h5py" THEN _h5py_read_dataset(self, name)
  ELSE Return(None)

\* The raw array a fast read returns: its shape and the number of fields of
\* its dtype.
ndarray(shape, nfields) ==
  [kind |-> "ndarray", shape |-> shape, nfields |-> nfields]

\* DataLoader._pandas_read_table_fast for a name that is in the store; read
\* is the outcome of table.read() or storer._read_array(). Every failure is
\* logged and answered with None, like a storer without a raw-read path.
_pandas_read_table_fast(self, name, read) ==
  LET storer == HDFStore_get_storer(self.store, name)
      i == CHOOSE i \in 1..Len(self.store.tables) :
              name = self.store.tables[i].name
              \/ name = Tail(self.store.tables[i].name)
      t == self.store.tables[i]
  IN IF storer.raises THEN Return(None)
     ELSE IF storer.fast = "table"
     THEN (IF read = "raises" THEN Return(None)
           ELSE Return(ndarray(<<t.rows>>, t.cols)))
     ELSE IF storer.fast = "array"
     THEN (IF read = "raises" THEN Return(None)
           ELSE Return(ndarray(<<t.rows, t.cols>>, 0)))
     ELSE Return(None)

\* DataLoader._h5py_read_dataset_raw
_h5py_read_dataset_raw(self, name) ==
  LET key == lstrip(name)
  IN IF ~H5File_contains(self.h5file, key) THEN Return(None)
     ELSE LET ds == H5File_getitem(self.h5file, key)
          IN IF ds.kind # "dataset" THEN Return(None)
             ELSE Return(ndarray(ds.shape, ds.nfields))

\* DataLoader.load_table_fast
load_table_fast(self, name, read) ==
  IF self.backend = "pandas"
  THEN (IF ~HDFStore_contains(self.store, name)
        THEN Return(None)
        ELSE _pandas_read_table_fast(self, name, read))
  ELSE IF self.backend = "h5py" THEN _h5py_read_dataset_raw(self, name)
  ELSE Return(None)

\* open_pandas as it would be without the test of keys: a store is committed
\* whenever it opens and enumerates.
open_pandas_commits_empty(self, pd) ==
  LET stored == pd.kind = "HDFStore"
  IN [self |-> IF stored
               THEN [self EXCEPT !.store = pd, !.backend = "pandas"]
               ELSE self,
      pandas_ok |-> stored,
      opened |-> IF pd.kind # "fails" THEN 1 ELSE 0,
      closed |-> 0]

\* The structured attempt of DataLoader.open: pd is the outcome of
\* pd.HDFStore and store.keys(). The store is committed when it enumerates
\* at least one key; a store without keys is closed; an exception, also one
\* of that close, is swallowed.
open_pandas(self, pd) ==
  LET stored == pd.kind = "HDFStore"
      keys == IF stored THEN HDFStore_keys(pd) ELSE <<>>
      pandas_ok == stored /\ keys # <<>>
  IN [self |-> IF pandas_ok
               THEN [self EXCEPT !.store = pd, !.backend = "pandas"]
               ELSE self,
      pandas_ok |-> pandas_ok,
      opened |-> IF pd.kind # "fails" THEN 1 ELSE 0,
      closed |-> IF stored /\ ~pandas_ok THEN 1 ELSE 0]

\* open_h5py as it would be with the backend tagged before h5py.File is
\* called: the tag stays when the call raises.
open_h5py_tags_first(self, h5) ==
  IF h5.kind = "File"
  THEN [self |-> [self EXCEPT !.h5file = h5, !.backend = "h5py"],
        raised |-> FALSE, opened |-> 1]
  ELSE [self |-> [self EXCEPT !.h5file = None, !.backend = "h5py"],
        raised |-> TRUE, opened |-> 0]

\* The raw fallback of DataLoader.open: h5 is the outcome of h5py.File.
open_h5py(self, h5) ==
  IF h5.kind = "File"
  THEN [self |-> [self EXCEPT !.h5file = h5, !.backend = "h5py"],
        raised |-> FALSE, opened |-> 1]
  ELSE [self |-> [self EXCEPT !.h5file = None],
        raised |-> TRUE, opened |-> 0]

\* DataLoader.open with the outcomes of the calls it makes: env.sc and
\* env.hc of closing the previous handles, env.pd of the structured open,
\* env.h5 of the raw open.
open(self, filepath, env) ==
  LET c == close(self, env.sc, env.hc)
      s0 == [c.self EXCEPT !.filepath = filepath]
      p == open_pandas(s0, env.pd)
      h == IF ~p.pandas_ok THEN open_h5py(p.self, env.h5)
           ELSE [self |-> p.self, raised |-> FALSE, opened |-> 0]
  IN [self |-> h.self,
      raised |-> h.raised,
      value |-> IF h.raised THEN None ELSE list_tables(h.self),
      h5_attempted |-> ~p.pandas_ok,
      opened |-> p.opened + h.opened,
      closed |-> c.closed + p.closed]

----------------------------------------------------------------------------
(* The table command of the server (server/commands/table.py) for a fast   *)
(* read.                                                                    *)

\* format_fast_table: the name, the shape and the marker of a fast read.
format_fast_table(name, data) ==
  [name |-> name, shape |-> data.shape, marker |-> "[fast]"]

\* An f-string that ends in {name}: the text and the characters of the name.
FormatName(text, name) == <<text>> \o name

\* handle of the table command for a payload with the name and fast true:
\* the loader's backend is asked first, then load_table_fast; None is
\* answered with one and the same error message.
table_handle_fast(self, name, read) ==
  IF ~is_open(self)
  THEN [ok |-> FALSE, error |-> <<"No file open">>]
  ELSE LET data == load_table_fast(self, name, read).value
       IN IF data = None
          THEN [ok |-> FALSE,
                error |-> FormatName(
                  "Table not found or fast read unsupported: ", name)]
          ELSE [ok |-> TRUE, content |-> format_fast_table(name, data),
                columns |-> <<>>, name |-> name, fast |-> TRUE]

----------------------------------------------------------------------------
(* The files on disk.                                                      *)

\* The paths the loader is asked to open.
Paths == {"p1", "p2"}

\* A file: what pd.HDFStore and h5py.File make of it when no error occurs.
File(pd, h5) == [pd |-> pd, h5 |-> h5]

\* The hierarchy h5py shows of a file written by pandas.
PandasAsRaw == <<Member("g", Group(<<Member("a", Dataset(<<2, 1>>, 0))>>))>>

\* The files: written by pandas with at least one table; plain HDF5 files,
\* which pandas rejects or opens without finding a table; not HDF5 at all.
Files ==
  {File(HDFStore(t), H5File(PandasAsRaw)) : t \in StoreContents \ {<<>>}}
  \cup {File(OpenFails, H5File(m)) : m \in RawContents}
  \cup {File(HDFStore(<<>>), H5File(m)) : m \in MemberLists(MaxDepth)}
  \cup {File(OpenFails, OpenFails)}

\* The file at the second path.
SecondFile == File(OpenFails, H5File(<<Member("a", Dataset(<<2>>, 0))>>))

\* The names load_table is asked for: keys of stores with and without the
\* leading "/", paths of datasets and of groups, and names that are absent.
LoadNames ==
  { <<"/", "x">>, <<"x">>, <<"/", "q">>,
    <<"/", "a">>, <<"/", "/", "a">>, <<"/", "g">>,
    <<"/", "g", "/", "a">>, <<"g", "/", "a">>, <<"/", "a", "/", "a">> }

----------------------------------------------------------------------------
(* The state machine: one DataLoader, the files it opens, and a caller     *)
(* that calls open, close, list_tables and load_table in any order.        *)

VARIABLES
  disk,      \* the file at each path
  store,     \* DataLoader.store
  h5file,    \* DataLoader.h5file
  backend,   \* DataLoader.backend
  filepath,  \* DataLoader.filepath
  live,      \* the number of underlying handles opened and not yet closed
  last,      \* the last call: its name, argument and outcome
  canvas,    \* a BrailleCanvas of plotter.py
  pen,       \* what is being drawn on the canvas, and the locals of line
  plot,      \* the last call of braille_plot: its arguments and what it did
  state,     \* the fields of ServerState other than its loader
  threads,   \* the threads of the server that are running, and their locals
  world      \* what is outside the server: clock, requests, ports, launchers

loader == <<store, h5file, backend, filepath>>
session == <<disk, store, h5file, backend, filepath, live, last>>
plotter == <<canvas, pen, plot>>
httpd == <<state, threads, world>>
vars == <<disk, store, h5file, backend, filepath, live, last,
          canvas, pen, plot, state, threads, world>>

\* No canvas has been made, nothing is being drawn, nothing was plotted.
NoCanvas == [kind |-> "None"]
NoPen == [op |-> "none"]
NoPlot == [op |-> "none"]

\* The DataLoader object.
Self == [store |-> store, h5file |-> h5file, backend |-> backend,
         filepath |-> filepath]

\* The handles that are live and no longer referenced by the loader.
Leaked ==
  live - (IF store # None THEN 1 ELSE 0) - (IF h5file # None THEN 1 ELSE 0)

\* The record of a call: op its name, arg its argument, before the backend
\* when it was made, raised and value its outcome, pd and h5 what the
\* library calls it made did.
NoCall == [op |-> "init", arg |-> NoneStr, before |-> NoneStr,
           raised |-> FALSE, value |-> None, pd |-> NoneStr, h5 |-> NoneStr]

\* ComputeState(status, message, table_name, error) with the defaults of the
\* dataclass; a message is the sequence of its pieces, "" the empty one.
ComputeState(status, message, table_name, error) ==
  [status |-> status, message |-> message, table_name |-> table_name,
   error |-> error]

ComputeState_default == ComputeState("idle", <<>>, NoName, NoneStr)

\* ServerState.__init__ besides the loader; virtual_tables is the dict as the
\* sequence of its entries in insertion order; Config() raised and the
\* column config is disabled.
ServerState_init ==
  [current_df |-> None, current_table |-> NoName, virtual_tables |-> <<>>,
   compute_thread |-> None, compute |-> ComputeState_default,
   config |-> None]

\* Nothing outside the server is modelled.
NoWorld == [kind |-> "None"]

\* The server state is as constructed, no request is in flight.
ServerIdle ==
  /\ state = ServerState_init
  /\ threads = {}
  /\ world = NoWorld

Init ==
  /\ disk \in {d \in [Paths -> Files \cup {SecondFile}] : d["p2"] = SecondFile}
  /\ store = DataLoader_init.store
  /\ h5file = DataLoader_init.h5file
  /\ backend = DataLoader_init.backend
  /\ filepath = DataLoader_init.filepath
  /\ live = 0
  /\ last = NoCall
  /\ canvas = NoCanvas
  /\ pen = NoPen
  /\ plot = NoPlot
  /\ ServerIdle

\* What happened in the structured attempt of an open.
StructuredKind(pd) ==
  IF pd.kind # "HDFStore" THEN pd.kind
  ELSE IF pd.tables = <<>> THEN "zero" ELSE "tables"

\* The outcomes of closing a handle: one when there is nothing to close.
CloseChoices(handle) == IF handle # None THEN CloseOutcomes ELSE {"closed"}

\* loader.open(path): each library call succeeds on the file as it is on
\* disk or fails.
Open ==
  /\ Leaked < MaxLeaked
  /\ \E path \in Paths :
     \E sc \in CloseChoices(store), hc \in CloseChoices(h5file) :
     \E pd \in {disk[path].pd, OpenFails}
               \cup (IF disk[path].pd.kind = "HDFStore" THEN {KeysRaise} ELSE {}) :
     \E h5 \in (IF StructuredKind(pd) = "tables" THEN {OpenFails}
                ELSE {disk[path].h5, OpenFails}) :
       LET r == open(Self, path, [sc |-> sc, hc |-> hc, pd |-> pd, h5 |-> h5])
       IN /\ store' = r.self.store
          /\ h5file' = r.self.h5file
          /\ backend' = r.self.backend
          /\ filepath' = r.self.filepath
          /\ live' = live + r.opened - r.closed
          /\ last' = [op |-> "open", arg |-> path, before |-> backend,
                      raised |-> r.raised, value |-> r.value,
                      pd |-> StructuredKind(pd),
                      h5 |-> IF ~r.h5_attempted THEN "skipped"
                             ELSE IF h5.kind = "File" THEN "opens" ELSE "fails"]
  /\ UNCHANGED <<httpd, disk, plotter>>

\* loader.close()
Close ==
  /\ \E sc \in CloseChoices(store), hc \in CloseChoices(h5file) :
       LET r == close(Self, sc, hc)
       IN /\ store' = r.self.store
          /\ h5file' = r.self.h5file
          /\ backend' = r.self.backend
          /\ filepath' = r.self.filepath
          /\ live' = live - r.closed
          /\ last' = [NoCall EXCEPT !.op = "close", !.before = backend,
                                    !.raised = r.raised,
                                    !.pd = IF store # None THEN sc ELSE NoneStr,
                                    !.h5 = IF h5file # None THEN hc ELSE NoneStr]
  /\ UNCHANGED <<httpd, disk, plotter>>

\* loader.list_tables()
ListTables ==
  /\ last' = [NoCall EXCEPT !.op = "list_tables", !.before = backend,
                            !.value = list_tables(Self)]
  /\ UNCHANGED <<httpd, disk, store, h5file, backend, filepath, live, plotter>>

\* loader.load_table(name)
LoadTable ==
  /\ \E name \in LoadNames :
       LET r == load_table(Self, name)
       IN last' = [NoCall EXCEPT !.op = "load_table", !.arg = name,
                                 !.before = backend,
                                 !.raised = r.raised, !.value = r.value]
  /\ UNCHANGED <<httpd, disk, store, h5file, backend, filepath, live, plotter>>

Next == Open \/ Close \/ ListTables \/ LoadTable

Spec == Init /\ [][Next]_vars

----------------------------------------------------------------------------
(* Properties of the session: backend tag, handles, open and close.        *)

\* C1: in every state reached by open and close calls, failing ones
\* included, backend is none, "pandas" or "h5py"; "pandas" means store is
\* set and h5file is not, "h5py" means h5file is set and store is not, none
\* means neither is set; the two handles are never both set.
C1_BackendMatchesHandle ==
  /\ backend \in {NoneStr, "pandas", "h5py"}
  /\ backend = "pandas" => (store # None /\ h5file = None)
  /\ backend = "h5py" => (h5file # None /\ store = None)
  /\ backend = NoneStr => (store = None /\ h5file = None)
  /\ ~(store # None /\ h5file # None)

\* A raw session that replaced a structured one.
C1_Witness ==
  /\ last.op = "open" /\ last.before = "pandas"
  /\ backend = "h5py" /\ h5file # None /\ store = None

\* C2: whenever open has returned or raised, at most one underlying handle
\* that was opened has not been closed.
C2_AtMostOneLiveHandle == last.op = "open" => live <= 1

\* C3: open ends with backend "pandas" exactly when the structured open
\* succeeded and enumerated at least one table; when it did not and the raw
\* open succeeds, open ends with backend "h5py"; the raw open is not
\* attempted after a structured commit.
C3_BackendSelection ==
  last.op = "open" =>
    /\ (backend = "pandas") <=> (last.pd = "tables")
    /\ (last.pd # "tables" /\ last.h5 = "opens") => backend = "h5py"
    /\ (backend = "pandas") => last.h5 = "skipped"
    /\ (last.pd # "tables") => last.h5 # "skipped"

\* A store that opened without tables, followed by the raw fallback.
C3_Witness ==
  /\ last.op = "open" /\ last.pd = "zero" /\ last.h5 = "opens"
  /\ backend = "h5py" /\ ~last.raised

\* C4: when neither backend opens the file, open raises and leaves the
\* session closed: backend none and no handle set, also when a file was
\* open before the call.
C4_OpenFailureClosesSession ==
  (last.op = "open" /\ last.pd # "tables" /\ last.h5 = "fails") =>
    /\ last.raised
    /\ backend = NoneStr /\ store = None /\ h5file = None

\* A failed open of a second file while a structured session was open.
C4_Witness ==
  /\ last.op = "open" /\ last.raised /\ last.h5 = "fails"
  /\ last.before = "pandas" /\ last.arg = "p2"
  /\ backend = NoneStr

\* C5: close never raises, whichever handle is live and whether or not the
\* underlying close raises; after it backend is none and both handles are
\* unset; on a session that is already closed it changes nothing.
C5_CloseResetsAndIsIdempotent ==
  [][last'.op = "close" =>
       /\ ~last'.raised
       /\ backend' = NoneStr /\ store' = None /\ h5file' = None
       /\ (~is_open(Self) => loader' = loader)]_vars

----------------------------------------------------------------------------
(* Properties of listing and loading.                                      *)

\* The object a name leads to in the open raw file, None when there is none.
Target(name) == H5File_getitem(h5file, lstrip(name))

\* C6: for every table list_tables returns with known rows and cols,
\* load_table of its name returns a table of exactly that many rows and
\* columns.
C6_LoadMatchesDescriptor ==
  last.op = "load_table" =>
    \A i \in 1..Len(list_tables(Self)) :
       LET d == list_tables(Self)[i]
       IN (d.name = last.arg /\ d.rows # Unknown /\ d.cols # Unknown) =>
             /\ ~last.raised
             /\ last.value # None
             /\ last.value.rows = d.rows
             /\ last.value.cols = d.cols

\* Reading the metadata of a table raises: get_storer raises or int() of
\* nrows does.
MetadataFails(t) == t.storer.raises \/ t.storer.nrows = BadValue

\* A store that differs in that the metadata of table i reads.
Repaired(st, i) ==
  HDFStore([st.tables EXCEPT ![i].storer =
              [raises |-> FALSE, nrows |-> Attr(st.tables[i].rows),
               ncols |-> Attr(st.tables[i].cols),
               axes |-> Attr(st.tables[i].cols), fast |-> "table"]])

\* C7: for the structured backend list_tables returns one descriptor per
\* declared table in enumeration order; a table whose metadata read fails
\* has rows and cols unknown, and every other descriptor is what it is when
\* that read does not fail.
C7_ListingResilience ==
  (last.op = "list_tables" /\ backend = "pandas") =>
    LET keys == HDFStore_keys(store)
        v == last.value
    IN /\ Len(v) = Len(keys)
       /\ \A i \in 1..Len(keys) : v[i].name = keys[i]
       /\ \A i \in 1..Len(keys) :
            MetadataFails(store.tables[i]) =>
              /\ v[i].rows = Unknown /\ v[i].cols = Unknown
              /\ \A j \in (1..Len(keys)) \ {i} :
                   v[j] = list_tables([Self EXCEPT
                                         !.store = Repaired(store, i)])[j]

\* Three tables, the metadata of the second fails, the others are reported
\* with their counts.
C7_Witness ==
  /\ last.op = "list_tables" /\ backend = "pandas"
  /\ Len(store.tables) = 3 /\ Len(last.value) = 3
  /\ MetadataFails(store.tables[2])
  /\ last.value[2].rows = Unknown
  /\ last.value[1].rows = 2 /\ last.value[1].cols = 3
  /\ last.value[3].rows = 2 /\ last.value[3].cols = 3

\* C8: the raw load_table converts a compound array to one column per field
\* whatever its rank, rank 0 to 1 row and the single column "value", rank 1
\* of length n to n rows and 1 column, rank 2 of shape (r, c) to r rows and
\* c columns, and rank 3 and more of shape (d0, d1, ..., dk) to d0 rows and
\* d1 * ... * dk columns.
C8_RawConversionPolicy ==
  (last.op = "load_table" /\ backend = "h5py"
     /\ Target(last.arg).kind = "dataset") =>
    LET ds == Target(last.arg)
        sh == ds.shape
        df == last.value
    IN /\ ~last.raised
       /\ df.kind = "DataFrame"
       /\ IF ds.nfields # 0 THEN df.cols = ds.nfields
          ELSE IF Len(sh) = 0
               THEN df.rows = 1 /\ df.cols = 1 /\ df.labels = "value"
          ELSE IF Len(sh) = 1 THEN df.rows = sh[1] /\ df.cols = 1
          ELSE IF Len(sh) = 2 THEN df.rows = sh[1] /\ df.cols = sh[2]
          ELSE df.rows = sh[1] /\ df.cols = SeqProd(Tail(sh))

\* The paths of up to MaxDepth + 1 member names.
CandidatePaths == SeqsUpTo({"a", "g"}, MaxDepth + 1) \ {<<>>}

\* "/" followed by the full path of the member names.
RECURSIVE PathName(_)
PathName(comps) ==
  IF comps = <<>> THEN <<>>
  ELSE <<"/", Head(comps)>> \o PathName(Tail(comps))

\* The object at a path of member names in the open raw file.
NodeAt(comps) ==
  Resolve(Group(h5file.members), [i \in 1..Len(comps) |-> <<comps[i]>>])

\* C9: for the raw backend list_tables reports every leaf dataset exactly
\* once and nothing else, named by "/" and its full path, with rows =
\* shape[0] (1 for rank 0) and cols = shape[1] (1 for rank <= 1).
C9_RawListing ==
  (last.op = "list_tables" /\ backend = "h5py") =>
    LET v == last.value
        Leaves == {c \in CandidatePaths : NodeAt(c).kind = "dataset"}
    IN /\ \A c \in Leaves :
            Cardinality({i \in 1..Len(v) : v[i].name = PathName(c)}) = 1
       /\ \A i \in 1..Len(v) :
            \E c \in Leaves :
               LET sh == NodeAt(c).shape
               IN /\ v[i].name = PathName(c)
                  /\ v[i].rows = (IF Len(sh) = 0 THEN 1 ELSE sh[1])
                  /\ v[i].cols = (IF Len(sh) <= 1 THEN 1 ELSE sh[2])

\* A file with a dataset at the root and one inside a group: two
\* descriptors, none for the group.
C9_Witness ==
  /\ last.op = "list_tables" /\ backend = "h5py"
  /\ NodeAt(<<"g">>).kind = "group"
  /\ NodeAt(<<"g", "a">>).kind = "dataset"
  /\ NodeAt(<<"a">>).kind = "dataset"
  /\ Len(last.value) = 2
  /\ last.value[2].name = <<"/", "g", "/", "a">>

\* The name is absent from the active backend: no key of the store matches
\* it, or it leads to no object or to a group of the raw file.
Absent(name) ==
  \/ /\ backend = "pandas"
     /\ \A i \in 1..Len(store.tables) :
           name # store.tables[i].name /\ name # Tail(store.tables[i].name)
  \/ /\ backend = "h5py"
     /\ Target(name).kind # "dataset"

----------------------------------------------------------------------------
(* The server: a ServerState with its DataLoader, and a client that sends  *)
(* commands in any order.                                                   *)

\* The files the server is asked to open: stores of one table, with every
\* kind of storer, raw files with datasets and groups, and a file that is
\* not HDF5.
ServerFiles ==
  {f \in Files :
     /\ f.pd.kind = "HDFStore" => Len(f.pd.tables) <= 1
     /\ f.h5.kind = "File" => f.h5.members \in MemberLists(MaxDepth)}

\* ServerState.__init__: a fresh DataLoader.
ServerInit ==
  /\ disk \in {d \in [Paths -> ServerFiles \cup {SecondFile}] :
                 d["p2"] = SecondFile}
  /\ store = DataLoader_init.store
  /\ h5file = DataLoader_init.h5file
  /\ backend = DataLoader_init.backend
  /\ filepath = DataLoader_init.filepath
  /\ live = 0
  /\ last = NoCall
  /\ canvas = NoCanvas
  /\ pen = NoPen
  /\ plot = NoPlot
  /\ ServerIdle

\* The table command with fast true: handle(state, {"name": name,
\* "fast": True}).
TableFast ==
  /\ \E name \in LoadNames, read \in ReadOutcomes :
       last' = [NoCall EXCEPT !.op = "table_fast", !.arg = name,
                              !.before = backend,
                              !.value = table_handle_fast(Self, name, read)]
  /\ UNCHANGED <<httpd, disk, store, h5file, backend, filepath, live, plotter>>

ServerNext == Open \/ Close \/ TableFast

ServerSpec == ServerInit /\ [][ServerNext]_vars

----------------------------------------------------------------------------
(* Properties of the fast read.                                            *)

\* The name is a key of the open store whose storer has no raw-read path:
\* get_storer answers, and the storer has neither a table nor _read_array.
Unsupported(name) ==
  /\ backend = "pandas"
  /\ HDFStore_contains(store, name)
  /\ ~HDFStore_get_storer(store, name).raises
  /\ HDFStore_get_storer(store, name).fast = "none"

\* What a failure result says apart from the name it was asked for.
FailureKind(response) == Head(response.error)

\* C11: a fast read of a table that exists and has no raw-read path ends in
\* a failure result that differs, apart from the name, from the failure
\* result of a fast read of a name that does not exist.
C11_UnsupportedIsNotNotFound ==
  (last.op = "table_fast" /\ Unsupported(last.arg)) =>
    /\ ~last.value.ok
    /\ \A n \in LoadNames, read \in ReadOutcomes :
          Absent(n) =>
            FailureKind(last.value)
              # FailureKind(table_handle_fast(Self, n, read))

----------------------------------------------------------------------------
(* The braille canvas (plotter.py): a grid of character cells, each a mask *)
(* of the 2 x 4 dots of a braille character.                               *)

\* BRAILLE_MAP[dx][dy], the bit of the dot in column dx and row dy of a
\* cell: 0x01 0x02 0x04 0x40 for the left column, 0x08 0x10 0x20 0x80 for
\* the right one. Sequences count from 1, so the bit is BRAILLE_MAP[dx+1][dy+1].
BRAILLE_MAP == <<<<1, 2, 4, 64>>, <<8, 16, 32, 128>>>>

\* a | b on naturals.
RECURSIVE BitOr(_, _)
BitOr(a, b) ==
  IF a = 0 THEN b
  ELSE IF b = 0 THEN a
  ELSE (IF a % 2 = 1 \/ b % 2 = 1 THEN 1 ELSE 0)
       + 2 * BitOr(a \div 2, b \div 2)

\* BrailleCanvas.__init__
BrailleCanvas(width, height) ==
  [char_width |-> width, char_height |-> height,
   pixel_width |-> width * 2, pixel_height |-> height * 4,
   _cells |-> [cy \in 0..(height - 1) |-> [cx \in 0..(width - 1) |-> 0]]]

\* set_pixel as it would be with = in place of |=: the dots set before in
\* the cell are lost.
set_pixel_assigns(self, px, py) ==
  IF px < 0 \/ px >= self.pixel_width \/ py < 0 \/ py >= self.pixel_height
  THEN self
  ELSE [self EXCEPT !._cells[py \div 4][px \div 2] =
                       BRAILLE_MAP[(px % 2) + 1][(py % 4) + 1]]

\* BrailleCanvas.set_pixel
set_pixel(self, px, py) ==
  IF px < 0 \/ px >= self.pixel_width \/ py < 0 \/ py >= self.pixel_height
  THEN self
  ELSE LET cx == px \div 2
           cy == py \div 4
           dx == px % 2
           dy == py % 4
       IN [self EXCEPT !._cells[cy][cx] =
                          BitOr(@, BRAILLE_MAP[dx + 1][dy + 1])]

\* abs
abs(v) == IF v < 0 THEN 0 - v ELSE v

\* The locals of line when the loop is entered.
line_locals(x0, y0, x1, y1) ==
  LET dx == abs(x1 - x0)
      dy == abs(y1 - y0)
  IN [x0 |-> x0, y0 |-> y0, x1 |-> x1, y1 |-> y1, dx |-> dx, dy |-> dy,
      sx |-> IF x0 < x1 THEN 1 ELSE -1,
      sy |-> IF y0 < y1 THEN 1 ELSE -1,
      err |-> dx - dy]

\* line_iter as it would be with the test of the end before set_pixel: the
\* end point is not drawn.
line_iter_breaks_first(self, loc) ==
  IF loc.x0 = loc.x1 /\ loc.y0 = loc.y1
  THEN [self |-> self, loc |-> loc, done |-> TRUE, drawn |-> <<>>]
  ELSE LET e2 == 2 * loc.err
           stepx == e2 > 0 - loc.dy
           stepy == e2 < loc.dx
       IN [self |-> set_pixel(self, loc.x0, loc.y0),
           loc |-> [loc EXCEPT
                      !.err = @ - (IF stepx THEN loc.dy ELSE 0)
                                + (IF stepy THEN loc.dx ELSE 0),
                      !.x0 = IF stepx THEN @ + loc.sx ELSE @,
                      !.y0 = IF stepy THEN @ + loc.sy ELSE @],
           done |-> FALSE,
           drawn |-> <<<<loc.x0, loc.y0>>>>]

\* One iteration of the loop of line: set_pixel, the test of the end, the
\* step. drawn is the set_pixel call it made.
line_iter(self, loc) ==
  LET drawn == set_pixel(self, loc.x0, loc.y0)
  IN IF loc.x0 = loc.x1 /\ loc.y0 = loc.y1
     THEN [self |-> drawn, loc |-> loc, done |-> TRUE,
           drawn |-> <<<<loc.x0, loc.y0>>>>]
     ELSE LET e2 == 2 * loc.err
              stepx == e2 > 0 - loc.dy
              stepy == e2 < loc.dx
          IN [self |-> drawn,
              loc |-> [loc EXCEPT
                         !.err = @ - (IF stepx THEN loc.dy ELSE 0)
                                   + (IF stepy THEN loc.dx ELSE 0),
                         !.x0 = IF stepx THEN @ + loc.sx ELSE @,
                         !.y0 = IF stepy THEN @ + loc.sy ELSE @],
              done |-> FALSE,
              drawn |-> <<<<loc.x0, loc.y0>>>>]

\* A local variable: v is computed once and Then goes on with its value.
Local(v, Then(_)) == CHOOSE out \in {Then(value) : value \in {v}} : TRUE

\* The loop of line.
RECURSIVE line_loop(_, _)
line_loop(self, loc) ==
  Local(line_iter(self, loc),
        LAMBDA r : IF r.done THEN r.self ELSE line_loop(r.self, r.loc))

\* BrailleCanvas.line
line(self, x0, y0, x1, y1) == line_loop(self, line_locals(x0, y0, x1, y1))

----------------------------------------------------------------------------
(* A canvas and a caller that draws on it: single pixels, or one line that *)
(* is followed through the iterations of its loop.                         *)

\* Sizes (width, height) in character cells of the canvases made.
CanvasSizes == {<<2, 1>>}

\* How far outside the canvas the coordinates passed to it go.
Margin == 1

\* Largest number of direct set_pixel calls on one canvas.
MaxPixels == 2

\* The coordinates passed to a canvas.
Points(self) ==
  {<<px, py>> : px \in (0 - Margin)..(self.pixel_width - 1 + Margin),
                py \in (0 - Margin)..(self.pixel_height - 1 + Margin)}

\* The caller's position: op is the call in progress or made last, n the
\* number of set_pixel calls the canvas has had, call the last of them,
\* from the point line was called with first, loc the locals of line, calls
\* the set_pixel calls line has made, done whether line has left its loop.
Pen(op, n, call, from, loc, calls, done) ==
  [op |-> op, n |-> n, call |-> call, from |-> from, loc |-> loc,
   calls |-> calls, done |-> done]

NewPen == Pen("new", 0, <<>>, <<0, 0>>, line_locals(0, 0, 0, 0), <<>>, TRUE)

\* The loader is not used.
SessionIdle ==
  /\ disk = [p \in Paths |-> SecondFile]
  /\ store = DataLoader_init.store
  /\ h5file = DataLoader_init.h5file
  /\ backend = DataLoader_init.backend
  /\ filepath = DataLoader_init.filepath
  /\ live = 0
  /\ last = NoCall
  /\ ServerIdle

CanvasInit ==
  /\ SessionIdle
  /\ canvas \in {BrailleCanvas(s[1], s[2]) : s \in CanvasSizes}
  /\ pen = NewPen
  /\ plot = NoPlot

\* BrailleCanvas(width, height): a fresh canvas replaces the one drawn on.
NewCanvas ==
  /\ pen.done
  /\ pen.op # "new"
  /\ \E s \in CanvasSizes : canvas' = BrailleCanvas(s[1], s[2])
  /\ pen' = NewPen
  /\ UNCHANGED <<httpd, session, plot>>

\* canvas.set_pixel(px, py)
SetPixel ==
  /\ pen.op \in {"new", "set_pixel"}
  /\ pen.n < MaxPixels
  /\ \E p \in Points(canvas) :
       /\ canvas' = set_pixel(canvas, p[1], p[2])
       /\ pen' = [pen EXCEPT !.op = "set_pixel", !.n = @ + 1, !.call = p]
  /\ UNCHANGED <<httpd, session, plot>>

\* canvas.line(x0, y0, x1, y1) on a fresh canvas, up to the entry of its
\* loop.
Line ==
  /\ pen.op = "new"
  /\ \E a \in Points(canvas), b \in Points(canvas) :
       pen' = Pen("line", 0, <<>>, a, line_locals(a[1], a[2], b[1], b[2]),
                  <<>>, FALSE)
  /\ UNCHANGED <<httpd, session, canvas, plot>>

\* One iteration of the loop of line.
LineStep ==
  /\ pen.op = "line"
  /\ ~pen.done
  /\ LET r == line_iter(canvas, pen.loc)
     IN /\ canvas' = r.self
        /\ pen' = [pen EXCEPT !.n = @ + Len(r.drawn),
                              !.call = IF r.drawn = <<>> THEN @
                                       ELSE r.drawn[1],
                              !.loc = r.loc,
                              !.calls = @ \o r.drawn,
                              !.done = r.done]
  /\ UNCHANGED <<httpd, session, plot>>

CanvasNext == NewCanvas \/ SetPixel \/ Line \/ LineStep

CanvasSpec == CanvasInit /\ [][CanvasNext]_vars

----------------------------------------------------------------------------
(* Properties of the canvas.                                               *)

\* The dot (px, py) of the canvas is set.
PixelSet(self, px, py) ==
  (self._cells[py \div 4][px \div 2]
     \div BRAILLE_MAP[(px % 2) + 1][(py % 4) + 1]) % 2 = 1

\* The coordinate is a dot of the canvas.
InBounds(self, px, py) ==
  px \in 0..(self.pixel_width - 1) /\ py \in 0..(self.pixel_height - 1)

\* The dots of the canvas that are set.
Pixels(self) ==
  {p \in (0..(self.pixel_width - 1)) \X (0..(self.pixel_height - 1)) :
     PixelSet(self, p[1], p[2])}

\* The arguments line was called with.
LineFrom == pen.from
LineTo == <<pen.loc.x1, pen.loc.y1>>

\* C12: for two points a and b of the canvas, line(a, b) on a fresh canvas
\* sets both end points, and line(b, a) on an identical fresh canvas sets
\* exactly the same dots.
C12_LineIsSymmetric ==
  (pen.op = "line" /\ pen.done
     /\ InBounds(canvas, LineFrom[1], LineFrom[2])
     /\ InBounds(canvas, LineTo[1], LineTo[2])) =>
    /\ PixelSet(canvas, LineFrom[1], LineFrom[2])
    /\ PixelSet(canvas, LineTo[1], LineTo[2])
    /\ Pixels(canvas) =
         Pixels(line(BrailleCanvas(canvas.char_width, canvas.char_height),
                     LineTo[1], LineTo[2], LineFrom[1], LineFrom[2]))

\* The bits of a mask.
Dots(mask) == {i \in 0..7 : (mask \div (2 ^ i)) % 2 = 1}

\* C13: set_pixel with a coordinate outside the canvas leaves every cell as
\* it was; with a coordinate inside it adds one bit to the mask of the cell
\* (px div 2, py div 4) and leaves the other cells as they were; no mask
\* loses a bit and every mask stays in 0..255.
C13_SetPixelEffect ==
  [][pen'.n = pen.n + 1 =>
       LET px == pen'.call[1]
           py == pen'.call[2]
       IN /\ canvas'.pixel_width = canvas.pixel_width
          /\ canvas'.pixel_height = canvas.pixel_height
          /\ IF ~InBounds(canvas, px, py)
             THEN canvas'._cells = canvas._cells
             ELSE /\ \E b \in 0..7 :
                       Dots(canvas'._cells[py \div 4][px \div 2])
                         = Dots(canvas._cells[py \div 4][px \div 2]) \cup {b}
                  /\ PixelSet(canvas', px, py)
                  /\ \A cy \in 0..(canvas.char_height - 1),
                        cx \in 0..(canvas.char_width - 1) :
                        /\ <<cx, cy>> # <<px \div 2, py \div 4>> =>
                             canvas'._cells[cy][cx] = canvas._cells[cy][cx]
                        /\ Dots(canvas._cells[cy][cx])
                             \subseteq Dots(canvas'._cells[cy][cx])
                        /\ canvas'._cells[cy][cx] \in 0..255]_vars

\* A line that began outside the canvas and has set three dots of one cell.
C13_Witness ==
  /\ pen.op = "line" /\ pen.n >= 4
  /\ ~InBounds(canvas, pen.from[1], pen.from[2])
  /\ InBounds(canvas, pen.call[1], pen.call[2])
  /\ \E cx \in 0..(canvas.char_width - 1) :
        Cardinality(Dots(canvas._cells[0][cx])) >= 3

\* max(a, b)
Max(a, b) == IF a >= b THEN a ELSE b
Min(a, b) == IF a <= b THEN a ELSE b

\* C14: for all integer end points line leaves its loop; it calls set_pixel
\* max(|x1 - x0|, |y1 - y0|) + 1 times, first on (x0, y0) and last on
\* (x1, y1); each point differs from the one before by at most 1 in x and
\* in y, and every point lies in the bounding box of the end points.
C14_LineCallsSetPixel ==
  pen.op = "line" =>
    LET n == Len(pen.calls)
        x1 == pen.loc.x1
        y1 == pen.loc.y1
        steps == Max(abs(x1 - LineFrom[1]), abs(y1 - LineFrom[2])) + 1
    IN /\ n <= steps
       /\ pen.done =>
            (n = steps /\ pen.calls[1] = LineFrom /\ pen.calls[n] = <<x1, y1>>)
       /\ ~pen.done => n < steps
       /\ n > 0 => pen.calls[1] = LineFrom
       /\ \A i \in 2..n :
            /\ abs(pen.calls[i][1] - pen.calls[i - 1][1]) <= 1
            /\ abs(pen.calls[i][2] - pen.calls[i - 1][2]) <= 1
       /\ \A i \in 1..n :
            /\ pen.calls[i][1] \in Min(LineFrom[1], x1)..Max(LineFrom[1], x1)
            /\ pen.calls[i][2] \in Min(LineFrom[2], y1)..Max(LineFrom[2], y1)

\* A steep line drawn up and to the left, from below the canvas to beyond
\* its left edge.
C14_Witness ==
  /\ pen.op = "line" /\ pen.done
  /\ LineFrom = <<1, 4>> /\ LineTo = <<-1, 0>>
  /\ Len(pen.calls) = 5

----------------------------------------------------------------------------
(* Numbers and text of the chart renderer. A float is modelled by the      *)
(* number it stands for: (n / d + k * 2^54) * 10^e, a record of a          *)
(* numerator n, a denominator d > 0, a count k of units of 2^54, where     *)
(* |n / d| is far below 2^54, and a decimal scale e, which is 0 or so far  *)
(* from 0 that a number of a smaller scale is lost in a sum with one of a  *)
(* larger scale. From 2^54 on the doubles are 4 apart, so a sum or          *)
(* difference of such a number and less than 2 is the number itself; the   *)
(* operations on numbers with k = 0 are taken as exact. A string is        *)
(* modelled by the sequence of its characters, each a string.              *)

RECURSIVE Gcd(_, _)
Gcd(a, b) == IF b = 0 THEN a ELSE Gcd(b, a % b)

\* n / d in lowest terms.
Rat(n, d) ==
  LET g == Gcd(abs(n), d)
  IN [n |-> n \div g, d |-> d \div g, k |-> 0, e |-> 0]
FromInt(i) == Rat(i, 1)
\* k * 2^54
Huge(k) == [n |-> 0, d |-> 1, k |-> k, e |-> 0]
\* v * 10^e for a number of scale 0; zero has scale 0.
Scaled(v, e) == IF v.n = 0 /\ v.k = 0 THEN v ELSE [v EXCEPT !.e = e]

\* The double nearest to a sum or difference.
fl(v) ==
  IF v.k # 0 /\ abs(v.n) < 2 * v.d THEN Huge(v.k) ELSE v

\* a + b and a - b in floats.
FloatAdd(a, b) ==
  IF a.e > b.e THEN a
  ELSE IF a.e < b.e THEN b
  ELSE Scaled(fl([Rat(a.n * b.d + b.n * a.d, a.d * b.d)
                    EXCEPT !.k = a.k + b.k]), a.e)
FloatSub(a, b) ==
  IF a.e > b.e THEN a
  ELSE IF a.e < b.e THEN Scaled(Rat(0 - b.n, b.d), b.e)
  ELSE Scaled(fl([Rat(a.n * b.d - b.n * a.d, a.d * b.d)
                    EXCEPT !.k = a.k - b.k]), a.e)

\* a * b and, for b # 0, a / b of numbers with k = 0.
RatMul(a, b) == Scaled(Rat(a.n * b.n, a.d * b.d), a.e + b.e)
RatDiv(a, b) ==
  Scaled(IF b.n > 0 THEN Rat(a.n * b.d, a.d * b.n)
         ELSE Rat(0 - a.n * b.d, a.d * (0 - b.n)),
         a.e - b.e)

\* a = b, and a < b for numbers of one scale.
RatEq(a, b) == a.k = b.k /\ a.e = b.e /\ a.n * b.d = b.n * a.d
RatLt(a, b) == a.k < b.k \/ (a.k = b.k /\ a.n * b.d < b.n * a.d)
RatAbs(a) == Rat(abs(a.n), a.d)
IsZero(a) == a.k = 0 /\ a.n = 0

\* int(round(v)): Python rounds a tie to the even neighbour.
round(v) ==
  LET q == v.n \div v.d
      r == v.n % v.d
  IN IF 2 * r < v.d THEN q
     ELSE IF 2 * r > v.d THEN q + 1
     ELSE IF q % 2 = 0 THEN q ELSE q + 1

\* int(v): the fraction is cut off towards zero.
int(v) == IF v.n >= 0 THEN v.n \div v.d ELSE 0 - ((0 - v.n) \div v.d)

\* chr(code) for a character that is not ASCII.
chr(code) == "chr(" \o ToString(code) \o ")"

\* The decimal digits of a natural number.
Digit == <<"0", "1", "2", "3", "4", "5", "6", "7", "8", "9">>
RECURSIVE Digits(_)
Digits(k) ==
  IF k < 10 THEN <<Digit[k + 1]>>
  ELSE Digits(k \div 10) \o <<Digit[(k % 10) + 1]>>

\* The digits of k, with zeros in front up to the length len.
RECURSIVE ZeroPadded(_, _)
ZeroPadded(k, len) ==
  IF Len(Digits(k)) >= len THEN Digits(k)
  ELSE <<"0">> \o (IF len = 1 THEN <<>> ELSE ZeroPadded(k, len - 1))

\* str(i) of an integer.
str(i) == IF i < 0 THEN <<"-">> \o Digits(0 - i) ELSE Digits(i)

\* f"{val:.2f}"
FormatFixed2(val) ==
  LET scaled == round(RatMul(RatAbs(val), FromInt(100)))
      sign == IF val.n < 0 THEN <<"-">> ELSE <<>>
  IN sign \o Digits(scaled \div 100) \o <<".">> \o ZeroPadded(scaled % 100, 2)

\* The power of ten of the first digit of a positive number.
RECURSIVE Exponent(_)
Exponent(a) ==
  IF ~RatLt(a, FromInt(10)) THEN 1 + Exponent(RatDiv(a, FromInt(10)))
  ELSE IF RatLt(a, FromInt(1)) THEN Exponent(RatMul(a, FromInt(10))) - 1
  ELSE 0

\* 10 ** e as a rational.
RECURSIVE Pow10(_)
Pow10(e) ==
  IF e = 0 THEN FromInt(1)
  ELSE IF e > 0 THEN RatMul(Pow10(e - 1), FromInt(10))
  ELSE RatDiv(Pow10(e + 1), FromInt(10))

\* f"{val:.{k}e}" for val # 0: a mantissa of one digit and k decimals, "e",
\* the sign of the exponent and its digits, two at least.
FormatExp(val, k) ==
  LET a == RatAbs(val)
      e0 == Exponent(a)
      m0 == round(RatMul(RatDiv(a, Pow10(e0)), Pow10(k)))
      carry == m0 >= Pow10(k + 1).n
      m == IF carry THEN m0 \div 10 ELSE m0
      e == (IF carry THEN e0 + 1 ELSE e0) + val.e
      ds == Digits(m)
      sign == IF val.n < 0 THEN <<"-">> ELSE <<>>
  IN sign \o <<Head(ds)>> \o (IF k > 0 THEN <<".">> \o Tail(ds) ELSE <<>>)
     \o <<"e", IF e < 0 THEN "-" ELSE "+">> \o ZeroPadded(abs(e), 2)

\* s[:n]
Prefix(s, n) == SubSeq(s, 1, Min(Len(s), n))

\* The number in digits: k * 2^54 is k * 1.8014398 * 10^16 to the digits
\* that are printed.
Printed(val) ==
  IF val.k # 0 THEN Scaled(Rat(val.k * 18014398, 10000000), 16) ELSE val

\* _format_num as it would be without the cut at max_width.
_format_num_uncut(val, max_width) ==
  LET v == Printed(val)
      s == IF v.n = 0 THEN <<"0">>
           ELSE IF v.e # 0
                   \/ (abs(v.n) < v.d /\ abs(v.n) * 100 < v.d)
                   \/ int(RatAbs(v)) >= 1000000
           THEN FormatExp(v, 2)
           ELSE IF RatEq(v, FromInt(int(v))) THEN str(int(v))
           ELSE FormatFixed2(v)
  IN IF Len(s) > max_width THEN FormatExp(v, 1) ELSE s

\* _format_num
_format_num(val, max_width) ==
  LET v == Printed(val)
      s == IF v.n = 0 THEN <<"0">>
           ELSE IF v.e # 0
                   \/ (abs(v.n) < v.d /\ abs(v.n) * 100 < v.d)
                   \/ int(RatAbs(v)) >= 1000000
           THEN FormatExp(v, 2)
           ELSE IF RatEq(v, FromInt(int(v))) THEN str(int(v))
           ELSE FormatFixed2(v)
      t == IF Len(s) > max_width THEN FormatExp(v, 1) ELSE s
  IN Prefix(t, max_width)

\* _place_label
RECURSIVE _place_label(_, _, _)
_place_label(char_list, pos, label) ==
  IF label = <<>> THEN char_list
  ELSE Local(IF 0 <= pos /\ pos < Len(char_list)
             THEN [char_list EXCEPT ![pos + 1] = Head(label)]
             ELSE char_list,
             LAMBDA placed : _place_label(placed, pos + 1, Tail(label)))

\* n copies of a character.
Repeat(ch, n) == [i \in 1..n |-> ch]

\* f"{label:>{width}}": spaces in front up to the width.
RightAligned(label, width) ==
  Repeat(" ", Max(0, width - Len(label))) \o label

----------------------------------------------------------------------------
(* braille_plot (plotter.py).                                              *)

\* The width of the gutter of the y axis labels.
y_axis_width == 10

\* The advisory returned for a plot area that is too small, kept whole.
TooSmallLine == <<"Plot area too small. Increase width/height.">>

\* np.min and np.max of a non-empty array.
np_min(a) ==
  a[CHOOSE i \in 1..Len(a) : \A j \in 1..Len(a) : ~RatLt(a[j], a[i])]
np_max(a) ==
  a[CHOOSE i \in 1..Len(a) : \A j \in 1..Len(a) : ~RatLt(a[i], a[j])]

\* The index arrays np.argsort(x) can return: the indexes (from 1) in an
\* order of ascending values. Its default kind, "quicksort", is not a
\* stable sort: equal values come in any order.
ArgSorts(x) ==
  {p \in [1..Len(x) -> 1..Len(x)] :
     /\ \A i, j \in 1..Len(x) : i # j => p[i] # p[j]
     /\ \A i \in 1..(Len(x) - 1) : ~RatLt(x[p[i + 1]], x[p[i]])}

\* The bounds and the extent of the canvas that to_pixel closes over.
Frame(x_min, x_max, y_min, y_max, pw, ph) ==
  [x_min |-> x_min, x_max |-> x_max, y_min |-> y_min, y_max |-> y_max,
   pw |-> pw, ph |-> ph]

\* The divisors of to_pixel.
XRange(f) == FloatSub(f.x_max, f.x_min)
YRange(f) == FloatSub(f.y_max, f.y_min)

\* max(0, min(hi, v))
Clamp(v, hi) == Max(0, Min(hi, v))

\* to_pixel with the row growing with y.
to_pixel_unflipped(xv, yv, f) ==
  LET px == round(RatMul(RatDiv(FloatSub(xv, f.x_min), XRange(f)),
                         FromInt(f.pw)))
      py == round(RatMul(RatDiv(FloatSub(yv, f.y_min), YRange(f)),
                         FromInt(f.ph)))
  IN <<Clamp(px, f.pw), Clamp(py, f.ph)>>

\* to_pixel for divisors that are not zero.
to_pixel(xv, yv, f) ==
  LET px == round(RatMul(RatDiv(FloatSub(xv, f.x_min), XRange(f)),
                         FromInt(f.pw)))
      py == round(RatMul(FloatSub(FromInt(1),
                                  RatDiv(FloatSub(yv, f.y_min), YRange(f))),
                         FromInt(f.ph)))
  IN <<Clamp(px, f.pw), Clamp(py, f.ph)>>

\* A call made on the canvas.
DrawPixel(p) == [op |-> "set_pixel", a |-> p, b |-> p]
DrawLine(a, b) == [op |-> "line", a |-> a, b |-> b]

\* The loop of the line plot from index i on: each point is set and, from
\* the second on, joined to the one before. draws collects the calls.
RECURSIVE line_plot(_, _, _, _, _, _)
line_plot(cv, xs, ys, f, i, draws) ==
  IF i > Len(xs) THEN [canvas |-> cv, draws |-> draws]
  ELSE LET p == to_pixel(xs[i], ys[i], f)
           c1 == set_pixel(cv, p[1], p[2])
       IN IF i > 1
          THEN LET p0 == to_pixel(xs[i - 1], ys[i - 1], f)
               IN line_plot(line(c1, p0[1], p0[2], p[1], p[2]), xs, ys, f,
                            i + 1,
                            draws \o <<DrawPixel(p), DrawLine(p0, p)>>)
          ELSE line_plot(c1, xs, ys, f, i + 1, Append(draws, DrawPixel(p)))

\* The loop of the scatter plot from index i on.
RECURSIVE scatter_plot(_, _, _, _, _, _)
scatter_plot(cv, x, y, f, i, draws) ==
  IF i > Len(x) THEN [canvas |-> cv, draws |-> draws]
  ELSE LET p == to_pixel(x[i], y[i], f)
       IN scatter_plot(set_pixel(cv, p[1], p[2]), x, y, f, i + 1,
                       Append(draws, DrawPixel(p)))

\* BrailleCanvas.render: one line per row of cells, one character per cell.
render(self) ==
  [r \in 1..self.char_height |->
     [c \in 1..self.char_width |-> chr(10240 + self._cells[r - 1][c - 1])]]

\* dict(zip(keys, values)): a key that comes twice keeps its last value.
DictZip(keys, values) ==
  [k \in {keys[i] : i \in 1..Len(keys)} |->
     values[CHOOSE i \in 1..Len(keys) :
              keys[i] = k /\ \A j \in (i + 1)..Len(keys) : keys[j] # k]]

\* The rows of the plot with the gutter in front of each, from row on.
RECURSIVE plot_rows(_, _, _, _)
plot_rows(braille_lines, tick_map, plot_height, row) ==
  IF row >= plot_height THEN <<>>
  ELSE LET prefix ==
             IF row \in DOMAIN tick_map
             THEN RightAligned(_format_num(tick_map[row], y_axis_width - 2),
                               y_axis_width - 1) \o <<" ", chr(9508)>>
             ELSE Repeat(" ", y_axis_width - 1) \o <<" ", chr(9474)>>
       IN <<prefix \o braille_lines[row + 1]>>
          \o plot_rows(braille_lines, tick_map, plot_height, row + 1)

\* The calls of _place_label on one character list, one after the other:
\* each of placed is a position and its label.
RECURSIVE place_labels(_, _)
place_labels(char_list, placed) ==
  IF placed = <<>> THEN char_list
  ELSE Local(_place_label(char_list, Head(placed)[1], Head(placed)[2]),
             LAMBDA tick_str : place_labels(tick_str, Tail(placed)))

\* The x-axis tick labels of a frame and the positions they are placed at:
\* left, middle and right.
tick_labels(f, plot_width) ==
  Local(<<_format_num(f.x_min, 8),
          _format_num(RatDiv(FloatAdd(f.x_min, f.x_max), FromInt(2)), 8),
          _format_num(f.x_max, 8)>>,
        LAMBDA labels :
          << <<0, labels[1]>>,
             <<(plot_width \div 2) - (Len(labels[2]) \div 2), labels[2]>>,
             <<plot_width - Len(labels[3]), labels[3]>> >>)

\* The character list of the tick row after the three labels are placed.
tick_str(f, plot_width) ==
  Local(tick_labels(f, plot_width),
        LAMBDA placed : place_labels(Repeat(" ", plot_width), placed))

\* axis_lines without the empty line.
axis_lines_no_blank(f, plot_width, x_label) ==
  << Repeat(" ", y_axis_width - 1) \o <<" ", chr(9492)>>
       \o Repeat(chr(9472), plot_width),
     Repeat(" ", y_axis_width) \o <<" ">>
       \o _place_label(Repeat(" ", plot_width), 0, _format_num(f.x_min, 8)),
     Repeat(" ", Max(0, y_axis_width + (plot_width \div 2)
                          - (Len(x_label) \div 2))) \o x_label >>

\* The lines below the plot rows: the rule of the x axis, the tick labels,
\* an empty line and the label of the x axis.
axis_lines(f, plot_width, x_label) ==
  LET center_x == y_axis_width + (plot_width \div 2) - (Len(x_label) \div 2)
  IN << Repeat(" ", y_axis_width - 1) \o <<" ", chr(9492)>>
          \o Repeat(chr(9472), plot_width),
        Repeat(" ", y_axis_width) \o <<" ">> \o tick_str(f, plot_width),
        <<>>,
        Repeat(" ", Max(0, center_x)) \o x_label >>

\* What a call of braille_plot did: raised and value its outcome, frame the
\* bounds it mapped with, canvas the canvas it drew, draws its calls on it,
\* sorted whether it called np.argsort.
Plotted(raised, value, frame, cv, draws, sorted) ==
  [raised |-> raised, value |-> value, frame |-> frame, canvas |-> cv,
   draws |-> draws, sorted |-> sorted]

NoFrame == Frame(FromInt(0), FromInt(0), FromInt(0), FromInt(0), 0, 0)

\* braille_plot for non-empty x and y of one length; order is what
\* np.argsort(x) returns. A divisor of zero makes the quotient in to_pixel
\* nan, and round raises ValueError on it.
braille_plot(x, y, width, height, x_label, y_label, plot_type, order) ==
  LET plot_width == width - y_axis_width - 1
      plot_height == height
  IN IF plot_width < 10 \/ plot_height < 5
     THEN Plotted(FALSE, <<TooSmallLine>>, NoFrame, NoCanvas, <<>>, FALSE)
     ELSE
       LET x_min0 == np_min(x)
           x_max0 == np_max(x)
           y_min0 == np_min(y)
           y_max0 == np_max(y)
           xdeg == RatEq(x_max0, x_min0)
           ydeg == RatEq(y_max0, y_min0)
           x_min == IF xdeg THEN FloatSub(x_min0, FromInt(1)) ELSE x_min0
           x_max == IF xdeg THEN FloatAdd(x_max0, FromInt(1)) ELSE x_max0
           y_min1 == IF ydeg THEN FloatSub(y_min0, FromInt(1)) ELSE y_min0
           y_max1 == IF ydeg THEN FloatAdd(y_max0, FromInt(1)) ELSE y_max0
           y_range == FloatSub(y_max1, y_min1)
           margin == RatMul(y_range, Rat(5, 100))
           y_min == FloatSub(y_min1, margin)
           y_max == FloatAdd(y_max1, margin)
           cv == BrailleCanvas(plot_width, plot_height)
       IN Local(Frame(x_min, x_max, y_min, y_max,
                      cv.pixel_width - 1, cv.pixel_height - 1),
                LAMBDA f :
          IF IsZero(XRange(f)) \/ IsZero(YRange(f))
          THEN Plotted(TRUE, Raise("ValueError").value, f, cv, <<>>, FALSE)
          ELSE
            Local(IF plot_type = "line"
                  THEN line_plot(cv, [i \in 1..Len(x) |-> x[order[i]]],
                                 [i \in 1..Len(y) |-> y[order[i]]], f, 1, <<>>)
                  ELSE scatter_plot(cv, x, y, f, 1, <<>>),
                  LAMBDA drawn :
            Local(render(drawn.canvas), LAMBDA braille_lines :
            LET y_ticks == <<f.y_max,
                             RatDiv(FloatAdd(f.y_max, f.y_min), FromInt(2)),
                             f.y_min>>
                y_tick_rows == <<0, plot_height \div 2, plot_height - 1>>
                tick_map == DictZip(y_tick_rows, y_ticks)
            IN Plotted(FALSE,
                       plot_rows(braille_lines, tick_map, plot_height, 0)
                         \o axis_lines(f, plot_width, x_label),
                       f, drawn.canvas, drawn.draws, plot_type = "line"))))

----------------------------------------------------------------------------
(* The calls of braille_plot: PlotSpec draws the arguments of one call and *)
(* applies the function to them.                                           *)

\* The most points of a call.
MaxPoints == 3

\* The values of the points. An array is of these, or constant at 2^54,
\* where the doubles are 4 apart.
XValues == {0, 5}
YValues == {0, 1, 5}
Arrays(values, n) ==
  [1..n -> {FromInt(v) : v \in values}] \cup {[i \in 1..n |-> Huge(1)]}

\* width and height of a call.
PlotSizes == {<<5, 2>>, <<20, 5>>, <<21, 4>>, <<21, 5>>, <<30, 10>>}
PlotTypes == {"line", "scatter"}
\* x_label and y_label of a call.
PlotLabels == {<<<<"t", "i", "m", "e">>, <<"y">>>>}

\* The calls: x and y have one length, as plot.handle passes them.
PlotCalls ==
  UNION {[op : {"call"}, x : Arrays(XValues, n), y : Arrays(YValues, n),
          width : {s[1] : s \in {t \in PlotSizes : t = size}},
          height : {s[2] : s \in {t \in PlotSizes : t = size}},
          x_label : {l[1] : l \in {m \in PlotLabels : m = labels}},
          y_label : {l[2] : l \in {m \in PlotLabels : m = labels}},
          plot_type : PlotTypes] :
           <<n, size, labels>> \in (1..MaxPoints) \X PlotSizes \X PlotLabels}

PlotInit ==
  /\ SessionIdle
  /\ canvas = NoCanvas
  /\ pen = NoPen
  /\ plot \in PlotCalls

\* One call of braille_plot: plot keeps the arguments, the index array that
\* np.argsort returned (the indexes as they are for a scatter plot) and
\* the outcome.
BraillePlot ==
  /\ plot.op = "call"
  /\ \E order \in (IF plot.plot_type = "line" THEN ArgSorts(plot.x)
                   ELSE {[i \in 1..Len(plot.x) |-> i]}) :
       plot' = [op |-> "done", x |-> plot.x, y |-> plot.y,
                width |-> plot.width, height |-> plot.height,
                x_label |-> plot.x_label, y_label |-> plot.y_label,
                plot_type |-> plot.plot_type, order |-> order,
                result |-> braille_plot(plot.x, plot.y, plot.width,
                                        plot.height, plot.x_label,
                                        plot.y_label, plot.plot_type, order)]
  /\ UNCHANGED <<httpd, session, canvas, pen>>

PlotNext == BraillePlot

PlotSpec == PlotInit /\ [][PlotNext]_vars

----------------------------------------------------------------------------
(* The chart that braille_plot returns.                                    *)

\* The call has returned or raised.
Called == plot.op = "done"
\* The area left after the gutter is too small.
TooSmall == plot.width - 11 < 10 \/ plot.height < 5
\* The call returned the one advisory line and made no canvas.
Advised ==
  /\ ~plot.result.raised
  /\ plot.result.value = <<TooSmallLine>>
  /\ plot.result.canvas = NoCanvas
\* The call returned a chart: rows of a canvas and the lines under them.
Charted ==
  /\ ~plot.result.raised
  /\ plot.result.canvas # NoCanvas
  /\ Len(plot.result.value) > plot.result.canvas.char_height

\* C15: braille_plot returns the one advisory line, and draws no canvas
\* rows, exactly when width - 11 < 10 or height < 5; for every other width
\* and height it returns a full chart block.
C15_AdvisoryOrChart ==
  Called => /\ Advised <=> TooSmall
            /\ ~TooSmall => Charted

\* v + i without rounding.
Exactly(v, i) == [v EXCEPT !.n = v.n + i * v.d]
\* All values of the array are v.
AllEqual(a, v) == \A i \in 1..Len(a) : a[i] = v

\* C16: when the area is not too small, all x equal to v give the x range
\* [v - 1, v + 1], all y equal to v give the y range [v - 1, v + 1] widened
\* by the margin, both divisors of the pixel mapping are strictly
\* positive and nothing is divided by zero.
C16_DegenerateRange ==
  Called /\ ~TooSmall =>
    LET f == plot.result.frame
        ym == Rat(1, 10)
    IN /\ \A v \in {plot.x[1]} : AllEqual(plot.x, v) =>
            f.x_min = Exactly(v, -1) /\ f.x_max = Exactly(v, 1)
       /\ \A v \in {plot.y[1]} : AllEqual(plot.y, v) =>
            /\ f.y_min = FloatSub(Exactly(v, -1), ym)
            /\ f.y_max = FloatAdd(Exactly(v, 1), ym)
       /\ RatLt(FromInt(0), XRange(f))
       /\ RatLt(FromInt(0), YRange(f))
       /\ ~plot.result.raised

\* The pixel that point i of the call was mapped to, and the pixel row of a
\* y value.
Mapped(i) == to_pixel(plot.x[i], plot.y[i], plot.result.frame)
RowOf(yv) == to_pixel(plot.x[1], yv, plot.result.frame)[2]
\* The y values of the call, and with them the two ends of the y range.
DataYs == {plot.y[i] : i \in 1..Len(plot.y)}
RangeYs == DataYs \cup {plot.result.frame.y_min, plot.result.frame.y_max}
\* A larger y value is on a smaller or equal pixel row.
Flipped(ys) == \A a, b \in ys : RatLt(a, b) => RowOf(b) <= RowOf(a)
\* Every point of the call was mapped into the canvas.
MappedInBounds ==
  \A i \in 1..Len(plot.x) :
    /\ Mapped(i)[1] \in 0..(plot.result.canvas.pixel_width - 1)
    /\ Mapped(i)[2] \in 0..(plot.result.canvas.pixel_height - 1)

\* C17 as stated: a larger y value maps to a smaller or equal pixel row,
\* the largest y value of the data maps to pixel row 0, and every mapped
\* point is in [0, pixelWidth-1] x [0, pixelHeight-1].
C17_DataMaxOnRowZero ==
  Called /\ Charted =>
    /\ Flipped(DataYs)
    /\ RowOf(np_max(plot.y)) = 0
    /\ MappedInBounds

\* C17, amended: a larger y value maps to a smaller or equal pixel row, the
\* upper end of the y range after the margin maps to pixel row 0 and the
\* lower end to the last row, the largest y value of the data being on the
\* highest row of the data, and every mapped point is in
\* [0, pixelWidth-1] x [0, pixelHeight-1].
C17_RangeTopOnRowZero ==
  Called /\ Charted =>
    /\ Flipped(RangeYs)
    /\ RowOf(plot.result.frame.y_max) = 0
    /\ RowOf(plot.result.frame.y_min) = plot.result.canvas.pixel_height - 1
    /\ \A i \in 1..Len(plot.y) : RowOf(np_max(plot.y)) <= Mapped(i)[2]
    /\ MappedInBounds

\* A chart of ten rows whose largest y value is on pixel row 2, below the
\* margin, and whose smallest is on row 37.
C17_Witness ==
  /\ Called /\ Charted
  /\ plot.height = 10
  /\ RowOf(np_max(plot.y)) = 2
  /\ RowOf(np_min(plot.y)) = 37

\* The indexes of x in ascending order of the values, equal values in the
\* order of the input.
StableOrder(x) ==
  CHOOSE p \in ArgSorts(x) :
    \A i, j \in 1..Len(x) : i < j /\ RatEq(x[p[i]], x[p[j]]) => p[i] < p[j]
\* The points of the call in the order of the index array p.
PointsIn(p) == [i \in 1..Len(p) |-> <<plot.x[p[i]], plot.y[p[i]]>>]
\* The calls on the canvas of a line plot that takes the points in the
\* order pts: each point set and, from the second on, joined to the one
\* before it.
RECURSIVE LineDraws(_, _)
LineDraws(pts, i) ==
  IF i > Len(pts) THEN <<>>
  ELSE LET p == to_pixel(pts[i][1], pts[i][2], plot.result.frame)
       IN <<DrawPixel(p)>>
          \o (IF i > 1
              THEN <<DrawLine(to_pixel(pts[i - 1][1], pts[i - 1][2],
                                       plot.result.frame), p)>>
              ELSE <<>>)
          \o LineDraws(pts, i + 1)
\* The calls of one kind among the draws.
DrawsOf(op) ==
  {i \in 1..Len(plot.result.draws) : plot.result.draws[i].op = op}

\* C18: a line plot takes the points in ascending x order, points of equal
\* x in their input order, sets every point and joins each consecutive
\* pair of that order with one line: n points, n - 1 lines.
C18_StableAscendingOrder ==
  Called /\ Charted /\ plot.plot_type = "line" =>
    /\ PointsIn(plot.order) = PointsIn(StableOrder(plot.x))
    /\ plot.result.draws = LineDraws(PointsIn(StableOrder(plot.x)), 1)
    /\ Cardinality(DrawsOf("set_pixel")) = Len(plot.x)
    /\ Cardinality(DrawsOf("line")) = Len(plot.x) - 1

\* The lines of the chart and the width of its plot area.
Lines == plot.result.value
PlotWidth == plot.width - 11
\* Line r is a plot row: the gutter, the axis, then row r of the canvas.
IsPlotRow(r) ==
  /\ Len(Lines[r]) = 11 + PlotWidth
  /\ Lines[r][11] \in {chr(9508), chr(9474)}
  /\ SubSeq(Lines[r], 12, 11 + PlotWidth) = render(plot.result.canvas)[r]
\* The rule of the x axis: the corner, then one dash per cell.
IsAxisRule(l) ==
  /\ Len(l) = 11 + PlotWidth
  /\ l[11] = chr(9492)
  /\ \A c \in 12..Len(l) : l[c] = chr(9472)
\* The tick labels: under the gutter nothing, then the labels, the first
\* at the left edge.
IsTickRow(l) ==
  /\ Len(l) = 11 + PlotWidth
  /\ \A c \in 1..11 : l[c] = " "
  /\ l[12] # " "
  /\ \A c \in 12..Len(l) : l[c] \notin {chr(9472), chr(9492)}
\* The title: the label of the x axis behind spaces.
IsTitle(l) ==
  /\ Len(l) >= Len(plot.x_label)
  /\ SubSeq(l, Len(l) - Len(plot.x_label) + 1, Len(l)) = plot.x_label
  /\ \A c \in 1..(Len(l) - Len(plot.x_label)) : l[c] = " "
\* From line n on: the axis rule, the tick labels, an empty line, the title.
AxisBlock(n) ==
  /\ IsAxisRule(Lines[n])
  /\ IsTickRow(Lines[n + 1])
  /\ Lines[n + 2] = <<>>
  /\ IsTitle(Lines[n + 3])

\* C19 as stated: a chart has height + 5 lines: the plot rows, the axis
\* rule, the tick labels, an empty line and the title, in this order.
C19_HeightPlusFiveLines ==
  Called /\ Charted =>
    /\ Len(Lines) = plot.height + 5
    /\ \A r \in 1..(Len(Lines) - 4) : IsPlotRow(r)
    /\ AxisBlock(Len(Lines) - 3)

\* C19, amended: a chart has height + 4 lines: height plot rows, the axis
\* rule, the tick labels, an empty line and the title, in this order.
C19_HeightPlusFourLines ==
  Called /\ Charted =>
    /\ Len(Lines) = plot.height + 4
    /\ \A r \in 1..plot.height : IsPlotRow(r)
    /\ AxisBlock(plot.height + 1)

\* The scatter plot of width 30 and height 10 has returned its 14 lines.
C19_Witness ==
  /\ Called /\ Charted
  /\ plot.plot_type = "scatter"
  /\ plot.width = 30 /\ plot.height = 10
  /\ Len(plot.x) = 3
  /\ Len(Lines) = 14

\* The label is a piece of one of the lines of the chart.
Occurs(label) ==
  \E r \in 1..Len(Lines) : \E c \in 1..(Len(Lines[r]) - Len(label) + 1) :
    SubSeq(Lines[r], c, c + Len(label) - 1) = label

\* C20: a chart holds both labels of the call: the text of x_label and the
\* text of y_label are each in one of its lines.
C20_BothLabelsInChart ==
  Called /\ Charted => Occurs(plot.x_label) /\ Occurs(plot.y_label)

----------------------------------------------------------------------------
(* The row of x-axis tick labels: the bounds of x and the width of the     *)
(* plot area are drawn, the labels are formatted and placed.               *)

\* The widths of the plot area, width - y_axis_width - 1 (at least 10).
TickWidths == 10..30

\* The least and the largest x: short labels and labels of 7 and 8 characters.
TickMins == {Rat(0 - 123456, 100), FromInt(0), FromInt(1)}
TickMaxs == {FromInt(2), FromInt(5), Rat(123456, 100)}

TickInit ==
  /\ SessionIdle
  /\ canvas = NoCanvas
  /\ pen = NoPen
  /\ plot \in [op : {"ticks"}, plot_width : TickWidths,
               x_min : TickMins, x_max : TickMaxs]

\* The tick label block of braille_plot: placed keeps the labels and where
\* they were put, row the character list after the three calls of
\* _place_label.
PlaceTicks ==
  /\ plot.op = "ticks"
  /\ LET f == Frame(plot.x_min, plot.x_max, FromInt(0), FromInt(1), 0, 0)
     IN plot' = [op |-> "placed", plot_width |-> plot.plot_width,
                 placed |-> tick_labels(f, plot.plot_width),
                 row |-> tick_str(f, plot.plot_width)]
  /\ UNCHANGED <<httpd, session, canvas, pen>>

TickNext == PlaceTicks

TickSpec == TickInit /\ [][TickNext]_vars

\* The positions the label placed as the i-th is written to.
Written(i) ==
  {plot.placed[i][1] + k - 1 : k \in 1..Len(plot.placed[i][2])}

\* C21: the left, middle and right tick labels (of up to 8 characters, in a
\* row of at least 10) are written to pairwise disjoint positions, all of
\* them inside the row.
C21_LabelsDisjoint ==
  plot.op = "placed" =>
    /\ \A i \in 1..3 : Len(plot.placed[i][2]) <= 8
    /\ \A i \in 1..3, j \in 1..3 : i # j => Written(i) \cap Written(j) = {}
    /\ \A i \in 1..3 : Written(i) \subseteq 0..(plot.plot_width - 1)

\* No character is written outside the row: the row keeps its length, and
\* what lies outside is dropped.
C21_RowKeepsLength ==
  plot.op = "placed" => Len(plot.row) = plot.plot_width

----------------------------------------------------------------------------
(* Responses of the command handlers (python/server/app.py and commands/). *)

\* An error text: the fixed words, the names put into it (of a column, a
\* table, a command) and the exception whose str() ends it, if any.
Message(text, names, exc) == [text |-> text, names |-> names, exc |-> exc]

\* {"ok": False, "error": ...}
Failure(error) == [ok |-> FALSE, error |-> error]

\* str(exc) of an exception that a library call raised.
StrExc(e) == Message("str(exc)", <<>>, e.type)

\* The try/except of dispatch around a handler: what the handler returned,
\* or the failure made of the exception it raised.
dispatch_uncaught(r) == r.value

dispatch_catch(r) ==
  IF r.raised THEN Failure(StrExc(r.value)) ELSE r.value

\* payload.get(key, default)
get(payload, key, default) ==
  IF key \in DOMAIN payload THEN payload[key] ELSE default

----------------------------------------------------------------------------
(* The plot command (python/server/commands/plot.py).                      *)

\* The cells of a column: a number, nan, a text that float() rejects with
\* ValueError, None (TypeError) and a Python int beyond the range of a
\* double in a column of objects (OverflowError).
NumCell(v) == [kind |-> "num", v |-> v]
NanCell == [kind |-> "nan"]
TextCell == [kind |-> "text"]
NoneCell == [kind |-> "none"]
BigCell == [kind |-> "big"]

\* The exception float(cell) raises, NoneStr when it converts.
FloatError(cell) ==
  CASE cell.kind = "text" -> "ValueError"
    [] cell.kind = "none" -> "TypeError"
    [] cell.kind = "big" -> "OverflowError"
    [] OTHER -> NoneStr

\* values.astype(float): the cells are converted in order, the first that
\* cannot be converted raises.
astype_float(values) ==
  LET bad == {i \in 1..Len(values) : FloatError(values[i]) # NoneStr}
  IN IF bad = {} THEN Return(values)
     ELSE Raise(FloatError(values[CHOOSE i \in bad : \A j \in bad : i <= j]))

\* a[mask]
RECURSIVE Masked(_, _)
Masked(a, mask) ==
  IF a = <<>> THEN <<>>
  ELSE (IF Head(mask) THEN <<Head(a)>> ELSE <<>>)
       \o Masked(Tail(a), Tail(mask))

\* A DataFrame with its cells: the names of its columns and the cells of
\* each.
CellFrame(columns, values) ==
  [kind |-> "DataFrame", columns |-> columns, values |-> values]

\* A reference to a column in the payload: an int or a string.
IntRef(i) == [kind |-> "int", v |-> i]
StrRef(s) == [kind |-> "str", v |-> s]

\* int(ref) of a string of one character; -1 where it raises ValueError.
ParseInt(s) ==
  IF Len(s) = 1 /\ \E k \in 0..9 : Digit[k + 1] = s[1]
  THEN CHOOSE k \in 0..9 : Digit[k + 1] = s[1]
  ELSE 0 - 1

\* _resolve_column(df, ref): the name of the column, or IndexError/KeyError.
_resolve_column(df, ref) ==
  LET n == Len(df.columns)
  IN IF ref.kind = "int"
     THEN IF ref.v < 0 \/ ref.v >= n THEN Raise("IndexError")
          ELSE Return(df.columns[ref.v + 1])
     ELSE IF \E i \in 1..n : df.columns[i] = ref.v THEN Return(ref.v)
     ELSE LET idx == ParseInt(ref.v)
          IN IF 0 <= idx /\ idx < n THEN Return(df.columns[idx + 1])
             ELSE Raise("KeyError")

\* df[col].values for a name that occurs once among the columns.
ColumnValues(df, col) ==
  df.values[CHOOSE i \in 1..Len(df.columns) : df.columns[i] = col]

\* What handle does before it calls the renderer. Either it has returned
\* or raised (done, with outcome), or it is about to call braille_plot with
\* x and y.
PlotReady(done, outcome, x, y, x_col, y_col) ==
  [done |-> done, outcome |-> outcome, x |-> x, y |-> y,
   x_col |-> x_col, y_col |-> y_col]

PlotReturned(response) ==
  PlotReady(TRUE, Return(response), <<>>, <<>>, <<>>, <<>>)

plot_prepare(st, payload) ==
  IF st.current_df = None
  THEN PlotReturned(Failure(Message("No table loaded. Open a table first.",
                                    <<>>, NoneStr)))
  ELSE
  LET cols == get(payload, "cols", <<>>)
      df == st.current_df
  IN IF Len(cols) < 2
     THEN PlotReturned(Failure(Message("Need at least 2 column indices (x y)",
                                       <<>>, NoneStr)))
     ELSE
     LET rx == _resolve_column(df, cols[1])
         ry == _resolve_column(df, cols[2])
     IN IF rx.raised \/ ry.raised
        THEN PlotReturned(Failure(Message("Invalid column: ", <<>>,
               IF rx.raised THEN rx.value.type ELSE ry.value.type)))
        ELSE
        LET x_col == rx.value
            y_col == ry.value
            x == astype_float(ColumnValues(df, x_col))
            y == astype_float(ColumnValues(df, y_col))
            caught == {"ValueError", "TypeError"}
        IN IF x.raised
           THEN IF x.value.type \in caught
                THEN PlotReturned(Failure(Message(
                       "Cannot convert column to numeric: ", <<x_col>>,
                       x.value.type)))
                ELSE PlotReady(TRUE, x, <<>>, <<>>, x_col, y_col)
           ELSE IF y.raised
           THEN IF y.value.type \in caught
                THEN PlotReturned(Failure(Message(
                       "Cannot convert column to numeric: ", <<y_col>>,
                       y.value.type)))
                ELSE PlotReady(TRUE, y, <<>>, <<>>, x_col, y_col)
           ELSE
           LET mask == [i \in 1..Len(x.value) |->
                          ~(x.value[i] = NanCell \/ y.value[i] = NanCell)]
               xm == Masked(x.value, mask)
               ym == Masked(y.value, mask)
           IN IF Len(xm) = 0
              THEN PlotReturned(Failure(Message(
                     "No valid data points to plot", <<>>, NoneStr)))
              ELSE PlotReady(FALSE, Return(None),
                             [i \in 1..Len(xm) |-> xm[i].v],
                             [i \in 1..Len(ym) |-> ym[i].v], x_col, y_col)

\* handle(state, payload) of the plot command; order is what np.argsort
\* returns inside braille_plot. invoked tells whether braille_plot was
\* called, call keeps its arguments and what it did.
plot_handle(st, payload, order) ==
  LET plot_type == get(payload, "type", "line")
      width == get(payload, "width", 72)
      height == get(payload, "height", 20)
  IN Local(plot_prepare(st, payload), LAMBDA p :
     IF p.done THEN [outcome |-> p.outcome, invoked |-> FALSE, call |-> NoPlot]
     ELSE Local(braille_plot(p.x, p.y, width, height, p.x_col, p.y_col,
                             plot_type, order),
                LAMBDA result :
       [outcome |->
          IF result.raised THEN [raised |-> TRUE, value |-> result.value]
          ELSE Return([ok |-> TRUE,
                       content |-> [title |-> <<p.x_col, p.y_col,
                                                st.current_table>>,
                                    plot_lines |-> result.value]]),
        invoked |-> TRUE,
        call |-> [op |-> "done", x |-> p.x, y |-> p.y, width |-> width,
                  height |-> height, x_label |-> p.x_col, y_label |-> p.y_col,
                  plot_type |-> plot_type, order |-> order,
                  result |-> result]]))

\* The index arrays np.argsort can return in the call that handle makes,
\* if it makes one.
PlotOrders(st, payload) ==
  LET p == plot_prepare(st, payload)
  IN IF p.done \/ get(payload, "type", "line") # "line"
     THEN {[i \in 1..Len(p.x) |-> i]}
     ELSE ArgSorts(p.x)

\* Largest number of rows of the current table.
MaxRows == 2

\* The cells of the current table.
PlotCells ==
  {NumCell(FromInt(0)), NumCell(FromInt(5)), NanCell, TextCell, NoneCell,
   BigCell}

\* The tables a table command has made current: two columns "a" and "b".
PlotFrames ==
  UNION {{CellFrame(<< <<"a">>, <<"b">> >>, <<a, b>>) :
            a \in [1..n -> PlotCells], b \in [1..n -> PlotCells]} :
         n \in 0..MaxRows}

\* The column references of a payload.
PlotCols ==
  { <<>>, <<IntRef(0)>>, <<IntRef(0), IntRef(1)>>, <<IntRef(1), IntRef(0)>>,
    <<IntRef(0), IntRef(0)>>, <<StrRef(<<"b">>), StrRef(<<"0">>)>>,
    <<IntRef(0), IntRef(2)>>, <<StrRef(<<"z">>), IntRef(0)>> }

\* The payloads of the plot command: cols alone (a line plot of 72 by 20),
\* or with type and size.
PlotPayloads ==
  [cols : PlotCols]
  \cup [cols : PlotCols, type : {"scatter"}, width : {21}, height : {5}]
  \cup [cols : PlotCols, width : {5}, height : {2}]

PlotCmdInit ==
  /\ disk = [p \in Paths |-> SecondFile]
  /\ store = DataLoader_init.store
  /\ h5file = DataLoader_init.h5file
  /\ backend = DataLoader_init.backend
  /\ filepath = DataLoader_init.filepath
  /\ live = 0
  /\ last = NoCall
  /\ canvas = NoCanvas
  /\ pen = NoPen
  /\ plot = NoPlot
  /\ state \in {[ServerState_init EXCEPT !.current_df = df,
                                         !.current_table = <<"/", "x">>] :
                  df \in PlotFrames} \cup {ServerState_init}
  /\ threads = {}
  /\ world = NoWorld

\* dispatch("plot", payload): last keeps the response, plot the call of the
\* renderer that this command made, if it made one. The command writes no
\* field of the state that it reads, so one command is followed from every
\* table.
PlotCommand ==
  /\ last.op = "init"
  /\ \E payload \in PlotPayloads :
     \E order \in PlotOrders(state, payload) :
     \E r \in {plot_handle(state, payload, order)} :
          /\ last' = [NoCall EXCEPT !.op = "plot", !.arg = payload,
                                    !.raised = r.outcome.raised,
                                    !.value = dispatch_catch(r.outcome)]
          /\ plot' = r.call
  /\ UNCHANGED <<disk, store, h5file, backend, filepath, live, canvas, pen,
                 httpd>>

PlotCmdNext == PlotCommand

PlotCmdSpec == PlotCmdInit /\ [][PlotCmdNext]_vars

\* The plot command was answered.
PlotAnswered == last.op = "plot"

\* The command got as far as resolving its two columns.
PlotResolved ==
  /\ PlotAnswered
  /\ state.current_df # None
  /\ Len(get(last.arg, "cols", <<>>)) >= 2
  /\ ~_resolve_column(state.current_df, last.arg.cols[1]).raised
  /\ ~_resolve_column(state.current_df, last.arg.cols[2]).raised

PlotXCol == _resolve_column(state.current_df, last.arg.cols[1]).value
PlotYCol == _resolve_column(state.current_df, last.arg.cols[2]).value

\* Some cell of the column cannot be converted to a float.
Unconvertible(col) ==
  \E i \in 1..Len(ColumnValues(state.current_df, col)) :
     FloatError(ColumnValues(state.current_df, col)[i]) # NoneStr

\* The rows in which both columns hold a number that is not nan.
ValidRows ==
  {i \in 1..Len(ColumnValues(state.current_df, PlotXCol)) :
     /\ ColumnValues(state.current_df, PlotXCol)[i].kind = "num"
     /\ ColumnValues(state.current_df, PlotYCol)[i].kind = "num"}

\* The renderer was called with two non-empty sequences of numbers of one
\* length.
RendererArgumentsValid ==
  plot # NoPlot =>
    /\ Len(plot.x) = Len(plot.y)
    /\ Len(plot.x) > 0
    /\ \A i \in 1..Len(plot.x) :
         /\ DOMAIN plot.x[i] = {"n", "d", "k"}
         /\ DOMAIN plot.y[i] = {"n", "d", "k"}

\* A column that cannot be converted is answered with a failure that names
\* it (the x column if both cannot), and the renderer is not called.
ConversionFailureNamesColumn ==
  (PlotResolved /\ (Unconvertible(PlotXCol) \/ Unconvertible(PlotYCol))) =>
    /\ ~last.value.ok
    /\ last.value.error.names =
         <<IF Unconvertible(PlotXCol) THEN PlotXCol ELSE PlotYCol>>
    /\ plot = NoPlot

\* No row left after the filter is answered with the failure of its own,
\* and the renderer is not called.
EmptyInputFailure ==
  (PlotResolved /\ ~Unconvertible(PlotXCol) /\ ~Unconvertible(PlotYCol)
     /\ ValidRows = {}) =>
    /\ ~last.value.ok
    /\ last.value.error.text = "No valid data points to plot"
    /\ plot = NoPlot

\* C22: the plot command calls the renderer only with two non-empty
\* sequences of numbers (no nan) of equal length; a column that cannot be
\* converted yields a failure that names the column, no point left after
\* the filter yields the failure 'No valid data points to plot', and in
\* both cases the renderer is not called.
C22_PlotCommandGuards ==
  /\ RendererArgumentsValid
  /\ ConversionFailureNamesColumn
  /\ EmptyInputFailure

\* The parts of C22 that concern the renderer: its arguments, and that it
\* is not called after a failed conversion or with no point left.
C22_RendererNeverMisused ==
  /\ RendererArgumentsValid
  /\ EmptyInputFailure
  /\ (PlotResolved /\ (Unconvertible(PlotXCol) \/ Unconvertible(PlotYCol)))
       => (~last.value.ok /\ plot = NoPlot)

----------------------------------------------------------------------------
(* The server under its threaded HTTP front end (python/server/http.py):   *)
(* every request is handled on a thread of its own, the handlers share     *)
(* one ServerState and take no lock. A handler is followed step by step;   *)
(* a step is one access to the shared state together with the local        *)
(* computation that leads to it.                                           *)

\* A handle after close() was called on it.
Closed(handle) == [kind |-> "closed", was |-> handle]

\* What the loader can do with a handle: nothing when it is None or closed.
Usable(handle) == handle.kind \in {"HDFStore", "File"}

\* The exception an access to a handle raises: AttributeError or TypeError
\* on None, ClosedFileError on a closed store, ValueError on a closed
\* h5py file.
HandleError(handle, on_none) ==
  IF handle = None THEN Raise(on_none)
  ELSE IF handle.was.kind = "HDFStore" THEN Raise("ClosedFileError")
  ELSE Raise("ValueError")

\* DataLoader.list_tables on the loader as another thread may have left it.
list_tables_shared(self) ==
  IF self.backend = "h5py" /\ ~Usable(self.h5file)
  THEN HandleError(self.h5file, "AttributeError")
  ELSE IF self.backend = "pandas" /\ ~Usable(self.store)
  THEN HandleError(self.store, "AttributeError")
  ELSE Return(list_tables(self))

\* DataLoader.load_table on the loader as another thread may have left it.
load_table_shared(self, name) ==
  IF self.backend = "pandas" /\ ~Usable(self.store)
  THEN HandleError(self.store, "TypeError")
  ELSE IF self.backend = "h5py" /\ ~Usable(self.h5file)
  THEN HandleError(self.h5file, "TypeError")
  ELSE load_table(self, name)

\* DataLoader.load_table_fast on the loader as another thread may have left
\* it.
load_table_fast_shared(self, name, read) ==
  IF self.backend = "pandas" /\ ~Usable(self.store)
  THEN HandleError(self.store, "TypeError")
  ELSE IF self.backend = "h5py" /\ ~Usable(self.h5file)
  THEN HandleError(self.h5file, "TypeError")
  ELSE load_table_fast(self, name, read)

\* The object threading.Thread(...) returns; None is no thread.
Thread(id) == [kind |-> "Thread", id |-> id]

\* "/__computed__/compute_<stamp>" and "/__computed__/compute_<stamp>_<n>":
\* the stamp is the second of the clock, suffix 0 is no suffix.
ComputeName(stamp, suffix) ==
  <<"/", "__computed__", "/", "compute", "_">> \o Digits(stamp)
    \o (IF suffix = 0 THEN <<>> ELSE <<"_">> \o Digits(suffix))

\* name in state.virtual_tables
InRegistry(virtual_tables, name) ==
  \E i \in 1..Len(virtual_tables) : virtual_tables[i].name = name

\* The while loop of _new_compute_name from a suffix on.
RECURSIVE FreeSuffix(_, _, _)
FreeSuffix(virtual_tables, stamp, suffix) ==
  IF InRegistry(virtual_tables, ComputeName(stamp, suffix))
  THEN FreeSuffix(virtual_tables, stamp, suffix + 1)
  ELSE suffix

\* _new_compute_name(state) at the second stamp.
_new_compute_name(virtual_tables, stamp) ==
  IF ~InRegistry(virtual_tables, ComputeName(stamp, 0))
  THEN ComputeName(stamp, 0)
  ELSE ComputeName(stamp, FreeSuffix(virtual_tables, stamp, 1))

\* state.virtual_tables[name] = entry: a new key goes to the end, an
\* existing one keeps its place and gets the new value.
SetItem(virtual_tables, entry) ==
  IF InRegistry(virtual_tables, entry.name)
  THEN [i \in 1..Len(virtual_tables) |->
          IF virtual_tables[i].name = entry.name THEN entry
          ELSE virtual_tables[i]]
  ELSE Append(virtual_tables, entry)

\* The entry _run_compute_job makes of the frame test_compute returned.
VirtualEntry(name, df) ==
  [name |-> name, df |-> df, rows |-> df.rows, cols |-> df.cols]

\* The frame test_compute returns.
ComputedFrame == DataFrame(2, 2, "computed")

\* ServerState.load_table on the shared state.
state_load_table(st, self, name) ==
  IF InRegistry(st.virtual_tables, name)
  THEN Return(st.virtual_tables[CHOOSE i \in 1..Len(st.virtual_tables) :
                                   st.virtual_tables[i].name = name].df)
  ELSE load_table_shared(self, name)

\* Largest number of requests the server is sent.
MaxRequests == 3
\* Largest number of requests the server is sent where its answers are
\* followed one command after the other.
MaxServed == 2
\* Largest number of requests in flight at once.
MaxHandlers == 2
\* Last second of the clock.
MaxClock == 1

\* The files of the threaded server: a pandas store with the table "/x" at
\* p1, a raw file at p2.
HttpDisk ==
  [p \in Paths |->
     IF p = "p1"
     THEN File(HDFStore(<<[name |-> <<"/", "x">>, rows |-> 2, cols |-> 3,
                           storer |-> [raises |-> FALSE, nrows |-> Attr(2),
                                       ncols |-> Attr(3), axes |-> Attr(3),
                                       fast |-> "table"]]>>),
               OpenFails)
     ELSE SecondFile]

\* The commands sent: the path of the request and what its payload names.
PlainCommands ==
  { <<"open", <<"p1">> >>, <<"open", <<"p2">> >>, <<"close", <<>> >>,
    <<"shutdown", <<>> >>, <<"table", <<"/", "x">> >>,
    <<"table", ComputeName(0, 0)>>, <<"info", <<"/", "x">> >>,
    <<"list_tables", <<>> >>, <<"compute_start", <<>> >>,
    <<"compute_status", <<>> >>, <<"bogus", <<>> >>,
    <<"open", <<"">> >>, <<"open", <<"gone">> >>, <<"open", <<"./p1">> >>,
    <<"plot", <<>> >> }

\* What a payload gives for "head": an int or a str.
IntHead(n) == [t |-> "int", v |-> n]
StrHead == [t |-> "str", v |-> 0]

\* payload.get("head", 100) and bool(payload.get("fast", False)) of a
\* payload that names neither.
NoOptions == [head |-> IntHead(100), fast |-> FALSE]

\* The commands with what their payload says besides the name: a table
\* command may ask for a fast read, or give a head that is a number or a
\* string.
Commands ==
  {<<c[1], c[2], NoOptions>> : c \in PlainCommands}
  \cup {<<"table", <<"/", "x">>, o>> :
          o \in {[NoOptions EXCEPT !.fast = TRUE],
                 [NoOptions EXCEPT !.head = IntHead(1)],
                 [NoOptions EXCEPT !.head = StrHead]}}
  \cup {<<"table", ComputeName(0, 0), [NoOptions EXCEPT !.fast = TRUE]>>}

\* The locals of a thread: where close returns to, the tables listed so far,
\* the size and the position of the iterator over the registry, the frame
\* loaded, the name computed.
NoLocals ==
  [ret |-> "answer", tables |-> <<>>, size |-> 0, pos |-> 0, df |-> None,
   name |-> NoName]

\* A thread that handles a request, and the thread of a compute job.
RequestThread(id, cmd, arg, options) ==
  [id |-> id, kind |-> "request", cmd |-> cmd, arg |-> arg, pc |-> "start",
   loc |-> NoLocals, options |-> options]
JobThread(id) ==
  [id |-> id, kind |-> "job", cmd |-> "compute", arg |-> <<>>, pc |-> "new",
   loc |-> NoLocals, options |-> NoOptions]

\* The request threads at a place of the handler of one of the commands.
At(cmds, pc) ==
  {t \in threads : t.kind = "request" /\ t.cmd \in cmds /\ t.pc = pc}

\* The threads of compute jobs at a place.
JobsAt(pc) == {t \in threads : t.kind = "job" /\ t.pc = pc}

\* thread.is_alive(): started and not ended.
is_alive(thread) ==
  \E t \in threads : t.kind = "job" /\ t.id = thread.id /\ t.pc # "new"

\* The thread moves on.
Become(t, u) == threads' = (threads \ {t}) \cup {u}

\* The response is sent and the thread ends; exc is the exception that left
\* the handler, NoneStr when it returned.
Answered(t, exc, response) ==
  [op |-> t.cmd, arg |-> t.arg, before |-> NoneStr, raised |-> exc # NoneStr,
   value |-> response, pd |-> NoneStr, h5 |-> NoneStr, id |-> t.id,
   exc |-> exc]

Answer(t, response) ==
  /\ threads' = threads \ {t}
  /\ last' = Answered(t, NoneStr, response)

\* The handler returned or raised r, and dispatch made the response of it.
Dispatched(t, r) ==
  /\ threads' = threads \ {t}
  /\ last' = Answered(t, IF r.raised THEN r.value.type ELSE NoneStr,
                      dispatch_catch(r))

\* Where close() starts, and where it goes on after the store: the tests
\* "is not None" are taken with the step before.
AfterStore(h5) == IF h5 # None THEN "close_h5" ELSE "untag"
EnterClose(st, h5) == IF st # None THEN "close_store" ELSE AfterStore(h5)

\* The server after ServerState() and before its first request; it will be
\* sent limit requests.
ServerStart(limit) ==
  /\ disk = HttpDisk
  /\ store = DataLoader_init.store
  /\ h5file = DataLoader_init.h5file
  /\ backend = DataLoader_init.backend
  /\ filepath = DataLoader_init.filepath
  /\ live = 0
  /\ last = NoCall
  /\ canvas = NoCanvas
  /\ pen = NoPen
  /\ plot = NoPlot
  /\ state = ServerState_init
  /\ threads = {}
  /\ world = [requests |-> 0, limit |-> limit, serving |-> TRUE, clock |-> 0,
              jobs |-> 0, epoch |-> 0, born |-> {}]

HttpInit == ServerStart(MaxRequests)

\* serve_forever accepts a request and starts a thread for it.
Request ==
  /\ world.serving
  /\ world.requests < world.limit
  /\ Cardinality({t \in threads : t.kind = "request"}) < MaxHandlers
  /\ \E c \in Commands :
       threads' = threads
                  \cup {RequestThread(world.requests + 1, c[1], c[2], c[3])}
  /\ world' = [world EXCEPT !.requests = @ + 1]
  /\ UNCHANGED <<disk, loader, live, last, plotter, state>>

\* dispatch of a command that has no handler.
UnknownCommand ==
  /\ \E t \in At({"bogus"}, "start") :
       Answer(t, Failure(Message("Unknown command: ", <<t.cmd>>, NoneStr)))
  /\ UNCHANGED <<disk, loader, live, plotter, state, world>>

\* The close command, and /shutdown: state.close_handles() is entered.
CloseStart ==
  /\ \E t \in At({"close", "shutdown"}, "start") :
       Become(t, [t EXCEPT !.pc = EnterClose(store, h5file)])
  /\ UNCHANGED <<disk, loader, live, last, plotter, state, world>>

\* close(): self.store.close()
CloseStore ==
  /\ \E t \in At({"open", "close", "shutdown"}, "close_store") :
       Become(t, [t EXCEPT !.pc = "unset_store"])
  /\ store' = IF Usable(store) THEN Closed(store) ELSE store
  /\ live' = IF Usable(store) THEN live - 1 ELSE live
  /\ UNCHANGED <<disk, h5file, backend, filepath, last, plotter, state, world>>

\* close(): self.store = None
UnsetStore ==
  /\ \E t \in At({"open", "close", "shutdown"}, "unset_store") :
       Become(t, [t EXCEPT !.pc = AfterStore(h5file)])
  /\ store' = None
  /\ UNCHANGED <<disk, h5file, backend, filepath, live, last, plotter, state,
                 world>>

\* close(): self.h5file.close()
CloseH5 ==
  /\ \E t \in At({"open", "close", "shutdown"}, "close_h5") :
       Become(t, [t EXCEPT !.pc = "unset_h5"])
  /\ h5file' = IF Usable(h5file) THEN Closed(h5file) ELSE h5file
  /\ live' = IF Usable(h5file) THEN live - 1 ELSE live
  /\ UNCHANGED <<disk, store, backend, filepath, last, plotter, state, world>>

\* close(): self.h5file = None
UnsetH5 ==
  /\ \E t \in At({"open", "close", "shutdown"}, "unset_h5") :
       Become(t, [t EXCEPT !.pc = "untag"])
  /\ h5file' = None
  /\ UNCHANGED <<disk, store, backend, filepath, live, last, plotter, state,
                 world>>

\* close(): self.backend = None; self.filepath = None. The close command
\* answers, /shutdown answers and stops serve_forever, open goes on.
Untag ==
  /\ \E t \in At({"open", "close", "shutdown"}, "untag") :
       /\ IF t.cmd = "open"
          THEN /\ Become(t, [t EXCEPT !.pc = t.loc.ret])
               /\ last' = last
          ELSE Answer(t, [ok |-> TRUE])
       /\ world' = [world EXCEPT !.serving = @ /\ t.cmd # "shutdown"]
  /\ backend' = NoneStr
  /\ filepath' = NoneStr
  /\ UNCHANGED <<disk, store, h5file, live, plotter, state>>

\* os.path.abspath on the paths sent, in the directory the server runs in:
\* "" is that directory, "./p1" and "p1" are the same file in it.
abspath(path) ==
  IF path = "" THEN <<"cwd">>
  ELSE IF path = "./p1" THEN <<"cwd", "p1">>
  ELSE <<"cwd", path>>

\* _normalize_path: os.path.normcase(os.path.abspath(path or "")); normcase
\* leaves the lower-case names of the model as they are.
_normalize_path(path) == abspath(IF path = NoneStr THEN "" ELSE path)

\* os.path.isfile(path)
isfile(path) == path # "" /\ abspath(path)[2] \in Paths

\* The file the operating system finds at a path; where there is none, no
\* library opens it.
FileAt(path) ==
  IF isfile(path) THEN disk[abspath(path)[2]] ELSE File(OpenFails, OpenFails)

\* The open of the file that is open: state.loader.is_open and the
\* normalized paths are equal.
SameFile(path) ==
  is_open(Self) /\ _normalize_path(filepath) = _normalize_path(path)

\* open.handle as it would be without the test of the path.
OpenStart_unchecked ==
  /\ \E t \in At({"open"}, "start") :
       /\ IF SameFile(t.arg[1])
          THEN Become(t, [t EXCEPT !.pc = "get_table_list"])
          ELSE Become(t, [t EXCEPT !.pc = EnterClose(store, h5file),
                                   !.loc.ret = "reset"])
       /\ last' = last
  /\ UNCHANGED <<disk, loader, live, plotter, state, world>>

\* open.handle: a path that is empty or no file is answered as a failure;
\* an open of the file that is open answers with its tables, any other
\* open closes what is open first.
OpenStart ==
  /\ \E t \in At({"open"}, "start") :
       IF t.arg[1] = "" \/ ~isfile(t.arg[1])
       THEN Answer(t, Failure(Message("File not found: ", t.arg, NoneStr)))
       ELSE /\ IF SameFile(t.arg[1])
               THEN Become(t, [t EXCEPT !.pc = "get_table_list"])
               ELSE Become(t, [t EXCEPT !.pc = EnterClose(store, h5file),
                                        !.loc.ret = "reset"])
            /\ last' = last
  /\ UNCHANGED <<disk, loader, live, plotter, state, world>>

\* open.handle: state.current_df = None; state.current_table = None, and
\* loader.open is entered, which calls close() again.
OpenReset ==
  /\ \E t \in At({"open"}, "reset") :
       Become(t, [t EXCEPT !.pc = EnterClose(store, h5file),
                           !.loc.ret = "set_filepath"])
  /\ state' = [state EXCEPT !.current_df = None, !.current_table = NoName]
  /\ UNCHANGED <<disk, loader, live, last, plotter, world>>

\* loader.open: self.filepath = filepath
OpenPath ==
  /\ \E t \in At({"open"}, "set_filepath") :
       /\ Become(t, [t EXCEPT !.pc = "pandas"])
       /\ filepath' = t.arg[1]
  /\ UNCHANGED <<disk, store, h5file, backend, live, last, plotter, state,
                 world>>

\* loader.open: pd.HDFStore(filepath) and self.store = store when it has
\* keys; otherwise the raw backend is tried.
OpenPandas ==
  /\ \E t \in At({"open"}, "pandas") :
       LET pd == FileAt(t.arg[1]).pd
       IN IF pd.kind = "HDFStore" /\ pd.tables # <<>>
          THEN /\ Become(t, [t EXCEPT !.pc = "tag_pandas"])
               /\ store' = pd
               /\ live' = live + 1
          ELSE /\ Become(t, [t EXCEPT !.pc = "h5py"])
               /\ UNCHANGED <<store, live>>
  /\ UNCHANGED <<disk, h5file, backend, filepath, last, plotter, state, world>>

\* loader.open: self.h5file = h5py.File(filepath), or RuntimeError, which
\* open.handle answers as a failure.
OpenH5py ==
  /\ \E t \in At({"open"}, "h5py") :
       LET h5 == FileAt(t.arg[1]).h5
       IN IF h5.kind = "File"
          THEN /\ Become(t, [t EXCEPT !.pc = "tag_h5py"])
               /\ h5file' = h5
               /\ live' = live + 1
               /\ last' = last
          ELSE /\ Answer(t, Failure(StrExc(Raise("RuntimeError").value)))
               /\ h5file' = None
               /\ live' = live
  /\ UNCHANGED <<disk, store, backend, filepath, plotter, state, world>>

\* loader.open: self.backend = "pandas" or "h5py"; a session begins.
OpenTag ==
  /\ \E t \in At({"open"}, "tag_pandas") \cup At({"open"}, "tag_h5py") :
       /\ Become(t, [t EXCEPT !.pc = "list_tables"])
       /\ backend' = IF t.pc = "tag_pandas" THEN "pandas" ELSE "h5py"
  /\ world' = [world EXCEPT !.epoch = @ + 1]
  /\ UNCHANGED <<disk, store, h5file, filepath, live, last, plotter, state>>

\* loader.open: return self.list_tables(); an exception is answered by
\* open.handle as a failure.
OpenList ==
  /\ \E t \in At({"open"}, "list_tables") :
       LET r == list_tables_shared(Self)
       IN IF r.raised
          THEN Answer(t, Failure(StrExc(r.value)))
          ELSE /\ Become(t, [t EXCEPT !.pc = "get_table_list"])
               /\ last' = last
  /\ UNCHANGED <<disk, loader, live, plotter, state, world>>

\* list_tables.handle up to get_table_list.
ListStart ==
  /\ \E t \in At({"list_tables"}, "start") :
       IF ~is_open(Self)
       THEN Answer(t, [ok |-> FALSE, code |-> "no_file_open",
                       error |-> Message("No file is open", <<>>, NoneStr)])
       ELSE /\ Become(t, [t EXCEPT !.pc = "get_table_list"])
            /\ last' = last
  /\ UNCHANGED <<disk, loader, live, plotter, state, world>>

\* state.get_table_list(): the tables of the loader, and the iterator over
\* the values of the registry when it is not empty.
GetTableList ==
  /\ \E t \in At({"open", "list_tables"}, "get_table_list") :
       LET r == list_tables_shared(Self)
       IN IF r.raised THEN Dispatched(t, r)
          ELSE IF state.virtual_tables = <<>>
          THEN Dispatched(t, Return([ok |-> TRUE, tables |-> r.value]))
          ELSE /\ Become(t, [t EXCEPT !.pc = "next",
                                      !.loc.tables = r.value,
                                      !.loc.size = Len(state.virtual_tables),
                                      !.loc.pos = 0])
               /\ last' = last
  /\ UNCHANGED <<disk, loader, live, plotter, state, world>>

\* next() on the iterator: RuntimeError when the dict changed size, the
\* next entry, or the end of the listing.
IterNext ==
  /\ \E t \in At({"open", "list_tables"}, "next") :
       IF Len(state.virtual_tables) # t.loc.size
       THEN Dispatched(t, Raise("RuntimeError"))
       ELSE IF t.loc.pos < t.loc.size
       THEN LET entry == state.virtual_tables[t.loc.pos + 1]
            IN /\ Become(t, [t EXCEPT !.loc.pos = @ + 1,
                                      !.loc.tables =
                                        Append(@, Descriptor(entry.name,
                                                             entry.rows,
                                                             entry.cols))])
               /\ last' = last
       ELSE Dispatched(t, Return([ok |-> TRUE, tables |-> t.loc.tables]))
  /\ UNCHANGED <<disk, loader, live, plotter, state, world>>

\* table.handle and info.handle: the test of is_open.
TableStart ==
  /\ \E t \in At({"table", "info"}, "start") :
       IF ~is_open(Self)
       THEN Answer(t, Failure(Message("No file open", <<>>, NoneStr)))
       ELSE /\ Become(t, [t EXCEPT !.pc =
                             IF t.cmd = "table" /\ t.options.fast
                             THEN "load_table_fast" ELSE "load_table"])
            /\ last' = last
  /\ UNCHANGED <<disk, loader, live, plotter, state, world>>

\* table.handle with fast: data = state.loader.load_table_fast(name) and
\* the answer; read is what the raw read of the storer does.
TableLoadFast ==
  /\ \E t \in At({"table"}, "load_table_fast"), read \in ReadOutcomes :
       LET r == load_table_fast_shared(Self, t.arg, read)
       IN IF r.raised THEN Dispatched(t, r)
          ELSE IF r.value = None
          THEN Dispatched(t, Return(Failure(Message(
                 "Table not found or fast read unsupported: ", <<t.arg>>,
                 NoneStr))))
          ELSE Dispatched(t, Return([ok |-> TRUE,
                                     content |-> format_fast_table(t.arg,
                                                                   r.value),
                                     columns |-> <<>>, name |-> t.arg,
                                     fast |-> TRUE]))
  /\ UNCHANGED <<disk, loader, live, plotter, state, world>>

\* table.handle and info.handle: df = state.load_table(name); info
\* answers with what it found.
TableLoad ==
  /\ \E t \in At({"table", "info"}, "load_table") :
       LET r == state_load_table(state, Self, t.arg)
       IN IF r.raised THEN Dispatched(t, r)
          ELSE IF r.value = None
          THEN Dispatched(t, Return(Failure(Message("Table not found: ",
                                                    <<t.arg>>, NoneStr))))
          ELSE IF t.cmd = "info"
          THEN Dispatched(t, Return([ok |-> TRUE, content |-> r.value]))
          ELSE /\ Become(t, [t EXCEPT !.pc = "set_current",
                                      !.loc.df = r.value])
               /\ last' = last
  /\ UNCHANGED <<disk, loader, live, plotter, state, world>>

\* The TypeError of len(df) > head for a head that is a str.
NotSupported == "TypeError: '>' not supported between 'int' and 'str'"

\* table.handle from display_df on: "head and len(df) > head" raises
\* TypeError for a head that is a non-empty str; otherwise the first head
\* rows are shown when the table has more, and all rows if not.
table_format(df, name, head) ==
  IF head.t = "str" THEN Raise(NotSupported)
  ELSE Return([ok |-> TRUE, content |-> df, name |-> name,
               shown |-> IF head.v # 0 /\ df.rows > head.v
                         THEN head.v ELSE df.rows])

\* table.handle: state.current_df = df; state.current_table = name (the
\* column config is disabled and _apply_column_config returns df), then
\* the table is formatted and answered.
TableSet ==
  /\ \E t \in At({"table"}, "set_current") :
       /\ state' = [state EXCEPT !.current_df = t.loc.df,
                                 !.current_table = t.arg]
       /\ Dispatched(t, table_format(t.loc.df, t.arg, t.options.head))
  /\ UNCHANGED <<disk, loader, live, plotter, world>>

\* plot.handle of a payload without "cols": "No table loaded" when
\* state.current_df is None, and the failure of too few columns if not.
PlotStart ==
  /\ \E t \in At({"plot"}, "start") :
       Dispatched(t, plot_handle(state, [cols |-> <<>>], <<>>).outcome)
  /\ UNCHANGED <<disk, loader, live, plotter, state, world>>

\* compute.handle_start: the test of the compute thread.
ComputeStart ==
  /\ \E t \in At({"compute_start"}, "start") :
       IF state.compute_thread # None /\ is_alive(state.compute_thread)
       THEN Dispatched(t, Return([ok |-> FALSE,
                                  error |-> Message("Compute already running",
                                                    <<>>, NoneStr),
                                  status |-> "running"]))
       ELSE /\ Become(t, [t EXCEPT !.pc = "set_running"])
            /\ last' = last
  /\ UNCHANGED <<disk, loader, live, plotter, state, world>>

\* compute.handle_start: state.compute = ComputeState(RUNNING, ...)
ComputeRunning ==
  /\ \E t \in At({"compute_start"}, "set_running") :
       Become(t, [t EXCEPT !.pc = "new_thread"])
  /\ state' = [state EXCEPT
                 !.compute = ComputeState("running", <<"Computing...">>,
                                          NoName, NoneStr)]
  /\ UNCHANGED <<disk, loader, live, last, plotter, world>>

\* compute.handle_start: state.compute_thread = threading.Thread(...). A
\* thread that was made and not started, and that nothing refers to any
\* more, is gone.
ComputeThread ==
  /\ \E t \in At({"compute_start"}, "new_thread") :
       LET id == 0 - (world.jobs + 1)
           lost == {j \in JobsAt("new") : Thread(j.id) = state.compute_thread}
       IN /\ threads' = ((threads \ {t}) \ lost)
                        \cup {[t EXCEPT !.pc = "start_thread"], JobThread(id)}
          /\ state' = [state EXCEPT !.compute_thread = Thread(id)]
  /\ world' = [world EXCEPT !.jobs = @ + 1]
  /\ UNCHANGED <<disk, loader, live, last, plotter>>

\* compute.handle_start: state.compute_thread.start() and the answer. The
\* attribute is read again: start() on a thread that was started already
\* raises RuntimeError.
ComputeGo ==
  /\ \E t \in At({"compute_start"}, "start_thread") :
       LET new == {j \in JobsAt("new") : Thread(j.id) = state.compute_thread}
       IN IF new = {}
          THEN Dispatched(t, Raise("RuntimeError"))
          ELSE /\ threads' = ((threads \ {t}) \ new)
                             \cup {[j EXCEPT !.pc = "run"] : j \in new}
               /\ last' = Answered(t, NoneStr,
                                   [ok |-> TRUE,
                                    status |-> state.compute.status,
                                    message |-> state.compute.message])
  /\ UNCHANGED <<disk, loader, live, plotter, state, world>>

\* compute.handle_status
ComputeStatus ==
  /\ \E t \in At({"compute_status"}, "start") :
       Dispatched(t, Return([ok |-> TRUE, status |-> state.compute.status,
                             message |-> state.compute.message,
                             table |-> state.compute.table_name,
                             error |-> state.compute.error]))
  /\ UNCHANGED <<disk, loader, live, plotter, state, world>>

\* _run_compute_job: test_compute() returns and the name is made at the
\* second the clock shows, or it raises and ERROR is published.
JobCompute ==
  /\ \E j \in JobsAt("run") :
       \/ \E now \in world.clock..MaxClock :
            /\ Become(j, [j EXCEPT !.pc = "insert",
                                   !.loc.name =
                                     _new_compute_name(state.virtual_tables,
                                                       now)])
            /\ world' = [world EXCEPT !.clock = now]
            /\ state' = state
       \/ /\ threads' = threads \ {j}
          /\ state' = [state EXCEPT
                         !.compute = ComputeState("error",
                                                  <<"Compute failed">>,
                                                  NoName, "str(exc)")]
          /\ world' = world
  /\ UNCHANGED <<disk, loader, live, last, plotter>>

\* _run_compute_job: state.virtual_tables[name] = {...}
JobInsert ==
  /\ \E j \in JobsAt("insert") :
       /\ Become(j, [j EXCEPT !.pc = "publish"])
       /\ state' = [state EXCEPT
                      !.virtual_tables =
                        SetItem(@, VirtualEntry(j.loc.name, ComputedFrame))]
       /\ world' = [world EXCEPT
                      !.born = @ \cup {<<j.loc.name, world.epoch,
                                         is_open(Self)>>}]
  /\ UNCHANGED <<disk, loader, live, last, plotter>>

\* _run_compute_job: state.compute = ComputeState(DONE, ...), and the
\* thread ends.
JobPublish ==
  /\ \E j \in JobsAt("publish") :
       /\ threads' = threads \ {j}
       /\ state' = [state EXCEPT
                      !.compute = ComputeState("done",
                                               <<"Compute done: ", j.loc.name>>,
                                               j.loc.name, NoneStr)]
  /\ UNCHANGED <<disk, loader, live, last, plotter, world>>

HttpNext ==
  \/ Request \/ UnknownCommand
  \/ CloseStart \/ CloseStore \/ UnsetStore \/ CloseH5 \/ UnsetH5 \/ Untag
  \/ OpenStart \/ OpenReset \/ OpenPath \/ OpenPandas \/ OpenH5py \/ OpenTag
  \/ OpenList
  \/ ListStart \/ GetTableList \/ IterNext
  \/ TableStart \/ TableLoad \/ TableLoadFast \/ TableSet \/ PlotStart
  \/ ComputeStart \/ ComputeRunning \/ ComputeThread \/ ComputeGo
  \/ ComputeStatus
  \/ JobCompute \/ JobInsert \/ JobPublish

HttpSpec == HttpInit /\ [][HttpNext]_vars

\* The same server, sent fewer requests.
DispatchInit == ServerStart(MaxServed)

DispatchSpec == DispatchInit /\ [][HttpNext]_vars

----------------------------------------------------------------------------
(* The threaded server: what its handlers can see of each other.           *)

\* The commands that read through the loader, and those that open or close
\* its handles.
ReadCommands == {"table", "info", "list_tables"}
SessionCommands == {"open", "close", "shutdown"}

\* A request was answered.
Replied == last.op # "init"

\* The exceptions an access to a closed or missing handle raises.
HandleErrors == {"ClosedFileError", "AttributeError", "TypeError", "ValueError"}

\* C23: under the threaded HTTP server no open, close or shutdown is in
\* progress while a table, info or list request is, and no read is answered
\* with the error of a closed handle or of a backend tag without handle.
C23_ReadsExcludeSessionChanges ==
  /\ \A t \in threads, u \in threads :
       ~(t.kind = "request" /\ u.kind = "request"
         /\ t.cmd \in ReadCommands /\ u.cmd \in SessionCommands)
  /\ ~(Replied /\ last.op \in ReadCommands /\ last.exc \in HandleErrors)

\* A read met a closed handle or a tagged backend without handle.
C23_ReadNeverFailsOnHandle ==
  ~(Replied /\ last.op \in ReadCommands /\ last.exc \in HandleErrors)

\* Every entry of the registry has its name, df, rows and cols.
EntriesComplete ==
  \A i \in 1..Len(state.virtual_tables) :
     LET entry == state.virtual_tables[i]
     IN /\ DOMAIN entry = {"name", "df", "rows", "cols"}
        /\ entry.name # NoName
        /\ entry.df # None
        /\ entry.rows = entry.df.rows
        /\ entry.cols = entry.df.cols

\* No listing of the tables failed because the registry changed under it.
ListingNeverFails ==
  ~(Replied /\ last.op \in {"list_tables", "open"}
    /\ last.exc = "RuntimeError")

\* The table that DONE names is in the registry.
InsertedBeforeDone ==
  state.compute.status = "done" =>
    InRegistry(state.virtual_tables, state.compute.table_name)

\* C24: at every interleaving of the compute thread with the handlers the
\* entries of the registry are complete, a listing sees the registry before
\* or after an insertion and never fails, and the table of a DONE status
\* is in the registry already.
C24_RegistryConsistent ==
  /\ EntriesComplete
  /\ ListingNeverFails
  /\ InsertedBeforeDone

\* The parts of C24 about the writer: complete entries, inserted before
\* DONE is published.
C24_InsertThenPublish == EntriesComplete /\ InsertedBeforeDone

\* The response that dispatch returned carries an ok flag; that of an
\* unknown command is a failure naming the command; that of a handler that
\* raised is the failure made of the exception.
DispatchAnswers ==
  (Replied /\ last.op # "shutdown") =>
    /\ "ok" \in DOMAIN last.value
    /\ last.op \notin {c[1] : c \in Commands} \ {"bogus"} =>
         /\ ~last.value.ok
         /\ last.value.error = Message("Unknown command: ", <<last.op>>,
                                       NoneStr)
    /\ last.raised =>
         /\ ~last.value.ok
         /\ last.value.error = Message("str(exc)", <<>>, last.exc)

\* Only /shutdown ends the serving of requests.
OnlyShutdownStops ==
  (world.serving /\ ~world'.serving) => last'.op = "shutdown"

\* C25: dispatch always returns a result with an ok flag and never raises; an
\* unknown command yields a failure that names it, an exception of a
\* handler becomes a failure with its message, and after a failed command
\* the server goes on serving (only /shutdown stops it).
C25_DispatchNeverRaises == []DispatchAnswers /\ [][OnlyShutdownStops]_vars

\* A handler raised, the request was answered with the failure, and a
\* request that came later is being served.
C25_Witness ==
  /\ Replied
  /\ last.raised
  /\ ~last.value.ok
  /\ world.serving
  /\ \E t \in threads : t.kind = "request" /\ t.id > last.id /\ t.pc # "start"

\* The virtual tables that were made in a session that is over: inserted
\* while a file was open, in a session before the present one or with no
\* file open now.
Outlived ==
  {b[1] : b \in {c \in world.born :
                   c[3] /\ (c[2] # world.epoch \/ ~is_open(Self))}}

\* The answer in last returns and loads no table whose session is over.
NothingOutlived ==
  Replied =>
    /\ "tables" \in DOMAIN last.value =>
         \A i \in 1..Len(last.value.tables) :
            last.value.tables[i].name \notin Outlived
    /\ (last.op \in {"table", "info"} /\ last.value.ok) =>
         last.arg \notin Outlived

\* C26: a virtual table does not outlive the session it was made in: once
\* that session is closed or replaced by the open of another file, no
\* answer lists the table and no table or info command loads it.
C26_VirtualTableEndsWithSession ==
  [][last' # last => NothingOutlived']_vars

\* The compute jobs that are running: started and not ended.
Running == {j \in threads : j.kind = "job" /\ j.pc # "new"}

\* At most one compute job is running.
OneJobRunning == Cardinality(Running) <= 1

\* A compute_start that is handled while a job is running is rejected with
\* 'Compute already running', and the compute state, the compute thread and
\* the registry stay as they are.
RejectedWhileRunning ==
  \A t \in At({"compute_start"}, "start") :
     (Running # {} /\ t \notin threads') =>
       /\ last'.id = t.id
       /\ ~last'.value.ok
       /\ last'.value.error = Message("Compute already running", <<>>, NoneStr)
       /\ state' = state

\* C27: at most one compute job is running at any time, also with several
\* compute_start requests handled at once, and a compute_start that comes
\* while a job is running is rejected and changes nothing.
C27_AtMostOneJob == []OneJobRunning /\ [][RejectedWhileRunning]_vars

\* The registry, changed only by an insertion of a job, grows by the one
\* entry of that job, under a name it did not hold, and keeps all it held.
FreshEntry ==
  /\ \A j \in JobsAt("insert") :
       j \notin threads' =>
         /\ ~InRegistry(state.virtual_tables, j.loc.name)
         /\ Len(state'.virtual_tables) = Len(state.virtual_tables) + 1
         /\ SubSeq(state'.virtual_tables, 1, Len(state.virtual_tables))
              = state.virtual_tables
  /\ state'.virtual_tables # state.virtual_tables =>
       \E j \in JobsAt("insert") : j \notin threads'

\* C29: each completed compute job adds exactly one entry to the registry
\* under a name that was not in it, so no virtual table is overwritten or
\* removed, also when two jobs finish in the same second.
C29_FreshEntryPerJob == [][FreshEntry]_vars

\* The compute status leaves DONE or ERROR only by the RUNNING that a
\* compute_start publishes, and a job that ends in ERROR leaves the
\* registry as it is.
StatusSteps ==
  /\ (state.compute.status \in {"done", "error"}
      /\ state'.compute # state.compute) =>
       /\ state'.compute.status = "running"
       /\ \E t \in At({"compute_start"}, "set_running") : t \notin threads'
  /\ (state'.compute # state.compute /\ state'.compute.status = "error") =>
       state'.virtual_tables = state.virtual_tables

\* C30: the status of a finished job, DONE or ERROR, is left only through
\* a newly accepted compute_start, and a job that ends in ERROR adds no
\* entry to the registry (the safety part of: every accepted compute_start
\* is eventually followed by DONE or ERROR).
C30_StatusFollowsJobs == [][StatusSteps]_vars

\* ---------------------------------------------------------------------
\* scripts/vime_launcher.py: the launcher, the servers it starts and the
\* ports of the range it scans.  A port is PORT_START + offset; every
\* HTTP probe, every bind attempt and every process operation is a step.
\* ---------------------------------------------------------------------

\* VIME_HTTP_PORT's default, and the number of ports of the range.
PORT_START == 51789
PORT_RETRIES == 2
MaxLaunchers == 2

\* range(max(PORT_RETRIES, 1)) as ports.
PortRange == {PORT_START + offset : offset \in 0..(Max(PORT_RETRIES, 1) - 1)}

\* What holds a port: nothing, a program that is no VIME server, or a VIME
\* server; owner is the launcher that started the server, NoLauncher for a
\* server that was started otherwise.
NoLauncher == 0
FreePort == [use |-> "free", owner |-> NoLauncher]
ForeignPort == [use |-> "foreign", owner |-> NoLauncher]
ServerPort(owner) == [use |-> "vime", owner |-> owner]

\* subprocess.Popen's handle together with the process behind it: status
\* "none" is server_proc = None, "starting" a process that has not bound a
\* port yet, "serving" one in serve_forever, "exited" one whose poll() is
\* not None.
NoProc == [status |-> "none", port |-> PORT_START, offset |-> 0]

\* main's locals at its start.
Launcher_init ==
  [pc |-> "find", started_by_wrapper |-> FALSE, server_proc |-> NoProc,
   active_port |-> PORT_START, offset |-> 0]

\* is_healthy: GET /health answers 200 on a port a VIME server serves;
\* a refused connection and another program's answer are URLError/OSError.
is_healthy(ports, port) == ports[port].use = "vime"

\* One round of the loop of find_healthy_port in launcher l: the probed
\* port is returned when healthy, otherwise the next offset is tried, and
\* None is returned after the last one.
Probe(w, l, found, none) ==
  LET self == w.launchers[l]
      port == PORT_START + self.offset
  IN IF is_healthy(w.ports, port)
       THEN [w EXCEPT !.launchers[l] =
               [self EXCEPT !.pc = found, !.active_port = port, !.offset = 0]]
     ELSE IF self.offset + 1 < Max(PORT_RETRIES, 1)
       THEN [w EXCEPT !.launchers[l].offset = @ + 1]
     ELSE [w EXCEPT !.launchers[l] = [self EXCEPT !.pc = none, !.offset = 0]]

\* The end of the server on a port: the port is free again, the process of
\* its owner has exited, and the stop is recorded with the launcher that
\* caused it.
Stop(w, by, port, how) ==
  LET owner == w.ports[port].owner
      freed == [w EXCEPT !.ports[port] = FreePort,
                         !.stopped = @ \cup {[by |-> by, owner |-> owner,
                                              port |-> port, how |-> how]}]
  IN IF owner = NoLauncher THEN freed
     ELSE [freed EXCEPT !.launchers[owner].server_proc.status = "exited"]

\* send_shutdown: POST /shutdown stops the VIME server on the port; with
\* no server there the error is ignored.
send_shutdown(w, by, port) ==
  IF is_healthy(w.ports, port) THEN Stop(w, by, port, "shutdown") ELSE w

\* terminate_server on launcher l's server_proc: nothing when the handle
\* is None or the process has exited, else the process is terminated.
terminate_server(w, l) ==
  LET proc == w.launchers[l].server_proc
  IN IF proc.status \in {"none", "exited"} THEN w
     ELSE IF proc.status = "serving" THEN Stop(w, l, proc.port, "terminate")
     ELSE [w EXCEPT !.launchers[l].server_proc.status = "exited",
                    !.stopped = @ \cup {[by |-> l, owner |-> l,
                                         port |-> proc.port,
                                         how |-> "terminate"]}]

\* bind_http_server, one attempt: the port of the attempt is bound when
\* free; EADDRINUSE moves to the next offset, and after the last attempt
\* RuntimeError ends the process.
bind_http_server(w, l) ==
  LET proc == w.launchers[l].server_proc
      port == PORT_START + proc.offset
  IN IF w.ports[port].use = "free"
       THEN [w EXCEPT !.ports[port] = ServerPort(l),
                      !.launchers[l].server_proc =
                         [proc EXCEPT !.status = "serving", !.port = port]]
     ELSE IF proc.offset + 1 < Max(1, PORT_RETRIES)
       THEN [w EXCEPT !.launchers[l].server_proc.offset = @ + 1]
     ELSE [w EXCEPT !.launchers[l].server_proc.status = "exited"]

Launchers == 1..MaxLaunchers

\* The machine when launchers are started: every port of the range is
\* free, held by another program, or served by a VIME server that is
\* already running.
LauncherInit ==
  /\ disk = HttpDisk
  /\ store = DataLoader_init.store
  /\ h5file = DataLoader_init.h5file
  /\ backend = DataLoader_init.backend
  /\ filepath = DataLoader_init.filepath
  /\ live = 0
  /\ last = NoCall
  /\ canvas = NoCanvas
  /\ pen = NoPen
  /\ plot = NoPlot
  /\ state = ServerState_init
  /\ threads = {}
  /\ \E ports \in [PortRange -> {FreePort, ForeignPort, ServerPort(NoLauncher)}] :
       world = [ports |-> ports,
                launchers |-> [l \in Launchers |-> Launcher_init],
                stopped |-> {}]

LauncherStep(w) ==
  /\ world' = w
  /\ UNCHANGED <<disk, loader, live, last, plotter, state, threads>>

\* main, step 1: existing = find_healthy_port(), one probe.
FindExisting ==
  \E l \in Launchers :
    /\ world.launchers[l].pc = "find"
    /\ LauncherStep(Probe(world, l, "vim", "start"))

\* main, step 2: start_server, started_by_wrapper = True.
start_server ==
  \E l \in Launchers :
    /\ world.launchers[l].pc = "start"
    /\ LauncherStep([world EXCEPT !.launchers[l] =
         [@ EXCEPT !.pc = "wait", !.started_by_wrapper = TRUE,
                   !.server_proc = [NoProc EXCEPT !.status = "starting"]]])

\* The server process of launcher l binds its port.
ServerBind ==
  \E l \in Launchers :
    /\ world.launchers[l].server_proc.status = "starting"
    /\ LauncherStep(bind_http_server(world, l))

\* wait_for_server, the head of a round before the deadline: None when
\* the server process has exited (main then terminates nothing and exits
\* with 1), else a scan of the range begins.
WaitPoll ==
  \E l \in Launchers :
    /\ world.launchers[l].pc = "wait"
    /\ LauncherStep(
         IF world.launchers[l].server_proc.status = "exited"
           THEN [terminate_server(world, l) EXCEPT !.launchers[l].pc = "exit"]
         ELSE [world EXCEPT !.launchers[l].pc = "scan"])

\* wait_for_server, port = find_healthy_port(), one probe; a scan that
\* finds nothing sleeps and starts the next round.
WaitScan ==
  \E l \in Launchers :
    /\ world.launchers[l].pc = "scan"
    /\ LauncherStep(Probe(world, l, "vim", "wait"))

\* wait_for_server when the deadline has passed: None, and main
\* terminates the server process and exits with 1.
WaitTimeout ==
  \E l \in Launchers :
    /\ world.launchers[l].pc = "wait"
    /\ LauncherStep([terminate_server(world, l)
                       EXCEPT !.launchers[l].pc = "exit"])

\* main, step 5: Vim runs and ends (or is not found).
RunVim ==
  \E l \in Launchers :
    /\ world.launchers[l].pc = "vim"
    /\ LauncherStep([world EXCEPT !.launchers[l].pc = "cleanup"])

\* main, step 6: send_shutdown(active_port) when started_by_wrapper.
Cleanup ==
  \E l \in Launchers :
    LET self == world.launchers[l]
    IN /\ self.pc = "cleanup"
       /\ LauncherStep(
            IF self.started_by_wrapper
              THEN [send_shutdown(world, l, self.active_port)
                      EXCEPT !.launchers[l].pc = "reap"]
            ELSE [world EXCEPT !.launchers[l].pc = "exit"])

\* main, step 6, after the shutdown: a server process that is still
\* running after wait(timeout=2) is terminated.
Reap ==
  \E l \in Launchers :
    /\ world.launchers[l].pc = "reap"
    /\ LauncherStep([terminate_server(world, l)
                       EXCEPT !.launchers[l].pc = "exit"])

LauncherNext ==
  \/ FindExisting
  \/ start_server
  \/ ServerBind
  \/ WaitPoll
  \/ WaitScan
  \/ WaitTimeout
  \/ RunVim
  \/ Cleanup
  \/ Reap

LauncherSpec == LauncherInit /\ [][LauncherNext]_vars

\* Every server that a launcher stopped, by /shutdown or by terminating
\* the process, is the server that launcher started.
StopsOwnServer ==
  \A e \in world.stopped :
     /\ e.owner = e.by
     /\ world.launchers[e.by].started_by_wrapper

\* C28: a launcher shuts down or terminates only the server it started
\* itself: never a server that was already running when it started, and
\* never the server of another launcher that runs at the same time.
C28_LauncherStopsOnlyItsServer == StopsOwnServer

----------------------------------------------------------------------------
(* The file path of the session.                                           *)

\* C38: in every state of the DataLoader reached by open and close calls,
\* filepath is set exactly when a backend is open; it is none whenever
\* backend is none, also after an open that failed on both backends.
C38_FilepathTracksBackend == (filepath # NoneStr) <=> (backend # NoneStr)

----------------------------------------------------------------------------
(* The text block of braille_plot: the rows of a rendered canvas with the  *)
(* gutter, the rule and the tick labels, for bounds of every size.         *)

\* The bounds of an axis, lower and upper: small and large numbers, numbers
\* whose first format is too long, and numbers of three digits of exponent.
RowRanges ==
  { <<FromInt(0), FromInt(1)>>,
    <<FromInt(0 - 1234567), FromInt(1234567)>>,
    <<Rat(0 - 1, 1000), FromInt(5)>>,
    <<Rat(0 - 9999999, 100), FromInt(5)>>,
    <<Huge(0 - 1), Huge(1)>>,
    <<Scaled(FromInt(0 - 1), 100), Scaled(FromInt(2), 100)>>,
    <<Scaled(Rat(0 - 15, 10), 0 - 100), Scaled(FromInt(1), 0 - 100)>> }

\* width and height of the call.
RowSizes == {<<21, 5>>, <<24, 5>>, <<21, 6>>, <<24, 6>>}

RowsInit ==
  /\ SessionIdle
  /\ canvas = NoCanvas
  /\ pen = NoPen
  /\ plot \in [op : {"bounds"}, size : RowSizes, xs : RowRanges,
               ys : RowRanges]

\* braille_plot from canvas.render() on, for a canvas without dots: lines
\* are the lines up to the tick labels, labels the six formatted numbers.
ComposeRows ==
  /\ plot.op = "bounds"
  /\ LET width == plot.size[1]
         plot_height == plot.size[2]
         plot_width == width - y_axis_width - 1
         f == Frame(plot.xs[1], plot.xs[2], plot.ys[1], plot.ys[2],
                    (2 * plot_width) - 1, (4 * plot_height) - 1)
         y_ticks == <<f.y_max, RatDiv(FloatAdd(f.y_max, f.y_min), FromInt(2)),
                      f.y_min>>
         y_tick_rows == <<0, plot_height \div 2, plot_height - 1>>
         tick_map == DictZip(y_tick_rows, y_ticks)
         braille_lines == render(BrailleCanvas(plot_width, plot_height))
     IN plot' = [op |-> "rows", width |-> width, height |-> plot_height,
                 frame |-> f,
                 labels |->
                   [i \in 1..3 |-> _format_num(y_ticks[i], y_axis_width - 2)]
                   \o [i \in 1..3 |-> tick_labels(f, plot_width)[i][2]],
                 lines |->
                   plot_rows(braille_lines, tick_map, plot_height, 0)
                     \o SubSeq(axis_lines(f, plot_width, <<"x">>), 1, 2)]
  /\ UNCHANGED <<httpd, session, canvas, pen>>

RowsNext == ComposeRows

RowsSpec == RowsInit /\ [][RowsNext]_vars

\* The character that ends the gutter of line i of a chart of height rows.
GutterEnd(lines, height, i) ==
  IF i <= height THEN lines[i][y_axis_width + 1] \in {chr(9508), chr(9474)}
  ELSE IF i = height + 1 THEN lines[i][y_axis_width + 1] = chr(9492)
  ELSE SubSeq(lines[i], 1, y_axis_width + 1) = Repeat(" ", y_axis_width + 1)

\* C39: for a plot area that is not too small every plot row, the rule of
\* the x axis and the row of the tick labels are exactly width characters
\* long, whatever the bounds of the data: no formatted tick label is longer
\* than 8 characters, and the gutter is 11 characters on every row.
C39_RowsAreWidthLong ==
  plot.op = "rows" =>
    /\ Len(plot.lines) = plot.height + 2
    /\ \A i \in 1..Len(plot.lines) :
         /\ Len(plot.lines[i]) = plot.width
         /\ GutterEnd(plot.lines, plot.height, i)
    /\ \A i \in 1..Len(plot.labels) : Len(plot.labels[i]) <= 8

\* Bounds of three digits of exponent: the label of the lower bound is cut
\* to 8 characters, and the rows are as long as the width.
C39_Witness ==
  /\ plot.op = "rows"
  /\ plot.frame.y_min = Scaled(FromInt(0 - 1), 100)
  /\ plot.labels[3] = <<"-", "1", ".", "0", "e", "+", "1", "0">>
  /\ plot.width = 24
  /\ Len(plot.lines[plot.height]) = 24
  /\ Len(plot.lines[plot.height + 2]) = 24

----------------------------------------------------------------------------
(* config.py: the column order kept per table, and _apply_column_config of *)
(* the table command. A column label is a string or an integer, kept as    *)
(* its type t and its string form s; a column of a table is known by its    *)
(* position.                                                                 *)

StrLabel(s) == [t |-> "str", s |-> s]
IntLabel(s) == [t |-> "int", s |-> s]

\* An entry of Config._tables: present tells whether the table is a key.
NoColumns == [present |-> FALSE, cols |-> <<>>]
Columns(cols) == [present |-> TRUE, cols |-> cols]

\* The tables a config names.
TableNames == {"t"}

\* x in seq
In(x, seq) == \E i \in 1..Len(seq) : seq[i] = x

\* The loop over a list that keeps the first occurrence of each string and
\* skips what is not a string: seen and ordered of _sanitize, and of
\* merge_table_columns, where every item is a string already.
RECURSIVE Ordered(_, _)
Ordered(cols, ordered) ==
  IF cols = <<>> THEN ordered
  ELSE Ordered(Tail(cols),
               IF Head(cols).t # "str" \/ In(Head(cols).s, ordered)
               THEN ordered
               ELSE Append(ordered, Head(cols).s))

\* Config._sanitize of what json.load read: a value that is not a dict
\* gives no table, and a table whose value is not a list is left out.
_sanitize(data) ==
  [n \in TableNames |->
     IF data.kind = "dict" /\ data.tables[n].kind = "list"
     THEN Columns(Ordered(data.tables[n].items, <<>>))
     ELSE NoColumns]

\* Config._load: no file gives no table, else what _sanitize keeps.
_load(file) ==
  IF file.kind = "absent" THEN [n \in TableNames |-> NoColumns]
  ELSE _sanitize(file)

\* What save() writes: the dict of the tables, each with its list.
json_dump(tables) ==
  [kind |-> "dict",
   tables |-> [n \in TableNames |->
                 IF tables[n].present
                 THEN [kind |-> "list",
                       items |-> [i \in 1..Len(tables[n].cols) |->
                                    StrLabel(tables[n].cols[i])]]
                 ELSE [kind |-> "missing", items |-> <<>>]]]

\* The loop of merge_table_columns over discovered as it would be without
\* the test of membership in current.
RECURSIVE merge_loop_untested(_, _, _)
merge_loop_untested(discovered, current, updated) ==
  IF discovered = <<>> THEN [updated |-> updated, changed |-> FALSE]
  ELSE LET rest == merge_loop_untested(Tail(discovered), current,
                                       Append(updated, Head(discovered)))
       IN [updated |-> rest.updated, changed |-> TRUE]

\* The loop of merge_table_columns over discovered: a column that is not in
\* current is appended to updated.
RECURSIVE merge_loop(_, _, _)
merge_loop(discovered, current, updated) ==
  IF discovered = <<>> THEN [updated |-> updated, changed |-> FALSE]
  ELSE IF In(Head(discovered), current)
  THEN merge_loop(Tail(discovered), current, updated)
  ELSE LET rest == merge_loop(Tail(discovered), current,
                              Append(updated, Head(discovered)))
       IN [updated |-> rest.updated, changed |-> TRUE]

\* Config.merge_table_columns on the tables of a config: tables are the
\* tables after the call, saved tells whether save() was called, and
\* save_ok whether it wrote the file; when it did not, OSError leaves the
\* call after the assignment to _tables.
merge_table_columns(tables, table_name, discovered_columns, save_ok) ==
  LET discovered ==
        Ordered([i \in 1..Len(discovered_columns) |->
                   StrLabel(discovered_columns[i])], <<>>)
      present == tables[table_name].present
      current == tables[table_name].cols
      loop == merge_loop(discovered, current, current)
      updated == IF ~present THEN discovered ELSE loop.updated
      changed == loop.changed \/ ~present
      after == IF changed
               THEN [tables EXCEPT ![table_name] = Columns(updated)]
               ELSE tables
  IN [tables |-> after,
      saved |-> changed,
      raised |-> changed /\ ~save_ok,
      value |-> IF changed /\ ~save_ok THEN <<>>
                ELSE after[table_name].cols]

\* {str(col): col for col in df.columns}[name]: the position of the last
\* column whose string form is the name, 0 when there is none.
col_map(columns, name) ==
  LET at == {i \in 1..Len(columns) : columns[i].s = name}
  IN IF at = {} THEN 0 ELSE CHOOSE i \in at : \A j \in at : j <= i

\* df.loc[:, labels]: for each label in turn, the positions of the columns
\* that carry it.
RECURSIVE loc(_, _)
loc(columns, labels) ==
  IF labels = <<>> THEN <<>>
  ELSE SelectSeq([i \in 1..Len(columns) |-> i],
                 LAMBDA i : columns[i] = Head(labels))
       \o loc(columns, Tail(labels))

\* _apply_column_config for a table of the given columns: positions are the
\* columns of the table it returns, as positions in df. config_on is
\* state.config is not None.
_apply_column_config(config_on, tables, table_name, columns, save_ok) ==
  LET identity == [i \in 1..Len(columns) |-> i]
      discovered == [i \in 1..Len(columns) |-> columns[i].s]
      m == merge_table_columns(tables, table_name, discovered, save_ok)
      named == SelectSeq(m.value, LAMBDA c : col_map(columns, c) # 0)
      ordered_actual == [i \in 1..Len(named) |->
                           columns[col_map(columns, named[i])]]
  IN IF ~config_on THEN [tables |-> tables, saved |-> FALSE,
                         positions |-> identity]
     ELSE IF m.raised THEN [tables |-> m.tables, saved |-> m.saved,
                            positions |-> identity]
     ELSE IF ordered_actual = <<>>
     THEN [tables |-> m.tables, saved |-> m.saved, positions |-> identity]
     ELSE [tables |-> m.tables, saved |-> m.saved,
           positions |-> loc(columns, ordered_actual)]

\* Most items of a stored list, most columns of a table.
MaxStored == 2
MaxColumns == 2

\* What json.load reads from the config file: a dict in which a table is
\* missing or has a list of strings and numbers or a value that is no
\* list, or a value that is no dict.
JsonItems == {StrLabel("a"), StrLabel("b"), IntLabel("1")}
JsonValues ==
  {[kind |-> "list", items |-> s] : s \in SeqsUpTo(JsonItems, MaxStored)}
  \cup {[kind |-> k, items |-> <<>>] : k \in {"string", "missing"}}
ConfigFiles ==
  {[kind |-> "dict", tables |-> t] : t \in [TableNames -> JsonValues]}
  \cup {[kind |-> k,
         tables |-> [n \in TableNames |-> [kind |-> "missing",
                                           items |-> <<>>]]] :
          k \in {"absent", "list"}}

\* The column names a table command discovers, and the labels of the
\* columns of a table.
ColumnNames == {"a", "b", "1"}
ColumnLabels == {StrLabel("a"), StrLabel("b"), StrLabel("1"), IntLabel("1")}

\* ServerState() with its Config(), or with the config disabled: world
\* keeps Config._tables and what the file holds.
ConfigInit ==
  /\ disk = HttpDisk
  /\ store = DataLoader_init.store
  /\ h5file = DataLoader_init.h5file
  /\ backend = DataLoader_init.backend
  /\ filepath = DataLoader_init.filepath
  /\ live = 0
  /\ last = NoCall
  /\ canvas = NoCanvas
  /\ pen = NoPen
  /\ plot = NoPlot
  /\ state = ServerState_init
  /\ threads = {}
  /\ \E file \in ConfigFiles, on \in BOOLEAN :
       world = [config_on |-> on, tables |-> _load(file), file |-> file]

\* The file after a call that may have saved.
Saved(r, save_ok) ==
  IF r.saved /\ save_ok THEN json_dump(r.tables) ELSE world.file

\* config.merge_table_columns(table_name, discovered_columns)
MergeTableColumns ==
  /\ world.config_on
  /\ \E table_name \in TableNames, save_ok \in BOOLEAN :
     \E discovered \in SeqsUpTo(ColumnNames, MaxColumns) :
     \E r \in {merge_table_columns(world.tables, table_name, discovered,
                                   save_ok)} :
       /\ world' = [world EXCEPT !.tables = r.tables,
                                 !.file = Saved(r, save_ok)]
       /\ last' = [op |-> "merge", table_name |-> table_name,
                   columns |-> discovered,
                   before |-> world.tables[table_name],
                   raised |-> r.raised, value |-> r.value,
                   saved |-> r.saved]
  /\ UNCHANGED <<disk, loader, live, plotter, state, threads>>

\* _apply_column_config(state, table_name, df) of the table command.
ApplyColumnConfig ==
  /\ \E table_name \in TableNames, save_ok \in BOOLEAN :
     \E columns \in SeqsUpTo(ColumnLabels, MaxColumns) :
     \E r \in {_apply_column_config(world.config_on, world.tables,
                                    table_name, columns, save_ok)} :
       /\ world' = [world EXCEPT !.tables = r.tables,
                                 !.file = Saved(r, save_ok)]
       /\ last' = [op |-> "apply", table_name |-> table_name,
                   columns |-> columns,
                   before |-> world.tables[table_name],
                   raised |-> FALSE, value |-> r.positions,
                   saved |-> r.saved]
  /\ UNCHANGED <<disk, loader, live, plotter, state, threads>>

ConfigNext == MergeTableColumns \/ ApplyColumnConfig

ConfigSpec == ConfigInit /\ [][ConfigNext]_vars

\* seq has no item twice.
NoDuplicate(seq) == \A i, j \in 1..Len(seq) : seq[i] = seq[j] => i = j

\* The items of seq that are not in other, in the order of seq, each once.
RECURSIVE NewOf(_, _)
NewOf(seq, other) ==
  IF seq = <<>> THEN <<>>
  ELSE IF In(Head(seq), other) THEN NewOf(Tail(seq), other)
  ELSE <<Head(seq)>> \o NewOf(Tail(seq), Append(other, Head(seq)))

\* A call of merge_table_columns that returned: the list is the stored
\* list followed by the new columns in the order of discovery, without a
\* duplicate; the next call with the same arguments returns the same list
\* and does not save.
MergeResult ==
  (last.op = "merge" /\ ~last.raised) =>
    /\ last.value = last.before.cols \o NewOf(last.columns, last.before.cols)
    /\ NoDuplicate(last.value)
    /\ \A i \in 1..Len(last.before.cols) : In(last.before.cols[i], last.value)
    /\ world.tables[last.table_name] = Columns(last.value)
MergeAgain ==
  (last.op = "merge" /\ last'.op = "merge"
   /\ last'.table_name = last.table_name /\ last'.columns = last.columns) =>
    /\ ~last'.saved /\ ~last'.raised
    /\ world'.tables = world.tables /\ world'.file = world.file
    /\ ~last.raised => last'.value = last.value

\* C31: merge_table_columns keeps the stored order of the configured
\* columns, appends the newly discovered ones after them in the order of
\* discovery, removes no configured column and makes no duplicate; a second
\* call with the same arguments returns the same list and does not write
\* the file again.
C31_MergeKeepsOrderAndIsIdempotent == []MergeResult /\ [][MergeAgain]_vars

\* New columns "1" and "b" were appended to a stored "a", and the same
\* call came again.
C31_Witness ==
  /\ last.op = "merge" /\ ~last.saved /\ ~last.raised
  /\ last.columns = <<"1", "b">>
  /\ last.value = <<"a", "1", "b">>
  /\ last.before = Columns(<<"a", "1", "b">>)

\* The positions are each column of the table once.
IsPermutation(positions, n) ==
  /\ Len(positions) = n
  /\ \A i \in 1..n : \E j \in 1..n : positions[j] = i

\* C40: _apply_column_config returns a table of exactly the columns of the
\* loaded table, reordered: none is dropped or comes twice, whatever the
\* stored configuration is, also when two column names have one string
\* form and when the configuration lists columns the table does not have.
C40_ColumnsOnlyReordered ==
  last.op = "apply" => IsPermutation(last.value, Len(last.columns))

\* ---------------------------------------------------------------------
\* bind_http_server (server/http.py): one call, over every port state.
\* ---------------------------------------------------------------------

\* errno.EADDRINUSE, and the default of getattr(errno, "WSAEADDRINUSE", 10048).
EADDRINUSE == 98
WSAEADDRINUSE == 10048
EACCES == 13

MaxAttempts == 3

\* The ports a call can reach: start_port + offset, offset < attempts.
BindPorts == PORT_START..(PORT_START + MaxAttempts)
StartPorts == {PORT_START, PORT_START + 1}

\* What VimeHTTPServer((host, port), handler_cls) does on a port: it binds,
\* or raises OSError with an errno, or raises an error that is no OSError.
PortStates ==
  {[bind |-> "ok", errno |-> 0],
   [bind |-> "OSError", errno |-> EADDRINUSE],
   [bind |-> "OSError", errno |-> WSAEADDRINUSE],
   [bind |-> "OSError", errno |-> EACCES],
   [bind |-> "OverflowError", errno |-> 0]}

InUse(port_state) ==
  /\ port_state.bind = "OSError"
  /\ port_state.errno \in {EADDRINUSE, WSAEADDRINUSE}

\* The loop of bind_http_server with every OSError taken as address in use.
RECURSIVE bind_loop_any(_, _, _, _, _)
bind_loop_any(ports, start_port, attempts, offset, tried) ==
  IF offset >= attempts
  THEN [raised |-> "RuntimeError", port |-> 0, errno |-> 0, tried |-> tried]
  ELSE LET port == start_port + offset
           now == Append(tried, port)
       IN IF ports[port].bind = "ok"
            THEN [raised |-> NoneStr, port |-> port, errno |-> 0,
                  tried |-> now]
          ELSE IF ports[port].bind = "OSError"
            THEN bind_loop_any(ports, start_port, attempts, offset + 1, now)
          ELSE [raised |-> ports[port].bind, port |-> 0,
                errno |-> ports[port].errno, tried |-> now]

\* for offset in range(attempts): the server of the first port that binds
\* is returned; OSError with an address-in-use errno moves on; any other
\* error leaves the function; after the loop RuntimeError is raised.
RECURSIVE bind_loop(_, _, _, _, _)
bind_loop(ports, start_port, attempts, offset, tried) ==
  IF offset >= attempts
  THEN [raised |-> "RuntimeError", port |-> 0, errno |-> 0, tried |-> tried]
  ELSE LET port == start_port + offset
           now == Append(tried, port)
       IN IF ports[port].bind = "ok"
            THEN [raised |-> NoneStr, port |-> port, errno |-> 0,
                  tried |-> now]
          ELSE IF InUse(ports[port])
            THEN bind_loop(ports, start_port, attempts, offset + 1, now)
          ELSE [raised |-> ports[port].bind, port |-> 0,
                errno |-> ports[port].errno, tried |-> now]

\* bind_http_server(host, start_port, max_attempts, handler_cls).
bind_http_server_call(ports, start_port, max_attempts) ==
  bind_loop(ports, start_port, Max(1, max_attempts), 0, <<>>)

BindInit ==
  /\ disk = HttpDisk
  /\ store = DataLoader_init.store
  /\ h5file = DataLoader_init.h5file
  /\ backend = DataLoader_init.backend
  /\ filepath = DataLoader_init.filepath
  /\ live = 0
  /\ last = NoCall
  /\ canvas = NoCanvas
  /\ pen = NoPen
  /\ plot = NoPlot
  /\ state = ServerState_init
  /\ threads = {}
  /\ \E ports \in [BindPorts -> PortStates] : world = [ports |-> ports]

\* One call; the port it bound is in use from then on.
BindHttpServer ==
  /\ \E start_port \in StartPorts, max_attempts \in (0 - 1)..MaxAttempts :
     \E r \in {bind_http_server_call(world.ports, start_port, max_attempts)} :
       /\ world' = IF r.raised = NoneStr
                   THEN [world EXCEPT !.ports[r.port] =
                           [bind |-> "OSError", errno |-> EADDRINUSE]]
                   ELSE world
       /\ last' = [op |-> "bind", start_port |-> start_port,
                   max_attempts |-> max_attempts, before |-> world.ports,
                   raised |-> r.raised, value |-> r.port,
                   errno |-> r.errno, tried |-> r.tried]
  /\ UNCHANGED <<disk, loader, live, plotter, state, threads>>

\* Another process takes or gives up a port between two calls.
PortChange ==
  /\ \E port \in BindPorts, s \in PortStates :
       /\ s.bind # "OverflowError"
       /\ world.ports[port].bind # "OverflowError"
       /\ world' = [world EXCEPT !.ports[port] = s]
  /\ last' = NoCall
  /\ UNCHANGED <<disk, loader, live, plotter, state, threads>>

BindNext == BindHttpServer \/ PortChange

BindSpec == BindInit /\ [][BindNext]_vars

\* The ports a call tried are start, start+1, ... in increasing order.
TriedInOrder ==
  /\ Len(last.tried) >= 1
  /\ Len(last.tried) <= Max(1, last.max_attempts)
  /\ \A i \in 1..Len(last.tried) : last.tried[i] = last.start_port + i - 1

\* Every port tried before the last one answered address in use.
MovedOnlyOnInUse ==
  \A i \in 1..(Len(last.tried) - 1) : InUse(last.before[last.tried[i]])

LastTried == last.tried[Len(last.tried)]

\* C32: bind_http_server tries start, start+1, ... in increasing order for
\* max(1, max_attempts) attempts and returns the first port that binds; it
\* moves on only on an address-in-use error, raises any other bind error
\* at once, and raises RuntimeError when every port of the range is in use.
C32_BindTriesPortsInOrder ==
  last.op = "bind" =>
    /\ TriedInOrder
    /\ MovedOnlyOnInUse
    /\ last.raised = NoneStr =>
         /\ last.value = LastTried
         /\ last.before[last.value].bind = "ok"
         /\ world.ports[last.value].bind # "ok"
    /\ last.raised = "RuntimeError" <=>
         /\ Len(last.tried) = Max(1, last.max_attempts)
         /\ InUse(last.before[LastTried])
    /\ last.raised \notin {NoneStr, "RuntimeError"} =>
         /\ last.raised = last.before[LastTried].bind
         /\ last.errno = last.before[LastTried].errno
         /\ ~InUse(last.before[LastTried])
         /\ world.ports = last.before

\* A call that moved past a port in use and then met an error that is not
\* address in use, while a free port was still left in its range.
C32_Witness ==
  /\ last.op = "bind"
  /\ last.raised = "OSError"
  /\ last.errno = EACCES
  /\ Len(last.tried) = 2
  /\ last.max_attempts = MaxAttempts
  /\ last.before[last.tried[1]].errno = WSAEADDRINUSE
  /\ last.before[last.start_port + 2].bind = "ok"

----------------------------------------------------------------------------
(* Properties of the open, close, table and plot commands of the server.   *)

\* The thread takes a step.
StepOf(t) == t \in threads /\ t \notin threads'

\* The thread takes its last step: its response is sent.
EndOf(t) == StepOf(t) /\ \A u \in threads' : u.id # t.id

\* What state.get_table_list() returns of the session as it is.
TableList ==
  list_tables(Self)
  \o [i \in 1..Len(state.virtual_tables) |->
        Descriptor(state.virtual_tables[i].name,
                   state.virtual_tables[i].rows,
                   state.virtual_tables[i].cols)]

\* An open command that found its file open, from its first step on.
Reusing(t) ==
  /\ t.kind = "request" /\ t.cmd = "open"
  /\ \/ t.pc = "start" /\ isfile(t.arg[1]) /\ SameFile(t.arg[1])
     \/ t.pc \in {"get_table_list", "next"} /\ t.loc.ret = "answer"

\* The fields of the session an open command may replace.
Selected == <<state.current_df, state.current_table>>

ReopenKeepsSession ==
  \A t \in threads :
     (Reusing(t) /\ StepOf(t)) =>
        /\ loader' = loader
        /\ live' = live
        /\ Selected' = Selected
        /\ EndOf(t) => /\ last'.id = t.id
                       /\ last'.value.ok
                       /\ last'.value.tables = TableList'

\* C33: an open command for the file that is already open (same normalized
\* path) does not close or reopen the handle, leaves current_df and
\* current_table unchanged, and returns the current table list.
C33_ReopenKeepsSession == [][ReopenKeepsSession]_vars

\* The path is empty or names no file.
BadPath(path) ==
  path = "" \/ \A p \in Paths : _normalize_path(p) # _normalize_path(path)

BadPathChangesNothing ==
  \A t \in At({"open"}, "start") :
     (StepOf(t) /\ BadPath(t.arg[1])) =>
        /\ EndOf(t)
        /\ last'.id = t.id
        /\ ~last'.value.ok
        /\ last'.value.error.text = "File not found: "
        /\ loader' = loader
        /\ live' = live
        /\ state' = state

\* C34: an open command whose path is empty or is not an existing file
\* returns a failure and changes nothing: the file that was open stays open
\* with the same handle, and current_df, current_table and the virtual
\* tables are unchanged.
C34_BadPathChangesNothing == [][BadPathChangesNothing]_vars

\* An open of a path that names no file was answered while a file was open
\* and a table was selected.
C34_Witness ==
  /\ last.op = "open" /\ last.arg = <<"gone">>
  /\ ~last.value.ok
  /\ backend = "pandas" /\ Usable(store)
  /\ state.current_df # None

\* An open command that found another file open, or none, once it has
\* reset the selection and entered loader.open.
Replacing(t) ==
  t.kind = "request" /\ t.cmd = "open" /\ t.loc.ret = "set_filepath"

NoneSelected == state.current_df = None /\ state.current_table = NoName

ResetBeforeOpen == \A t \in threads : Replacing(t) => NoneSelected

NoneAfterOpen ==
  \A t \in threads : (Replacing(t) /\ EndOf(t)) => NoneSelected'

PlotNeedsTable ==
  \A t \in At({"plot"}, "start") :
     (StepOf(t) /\ NoneSelected) =>
        /\ ~last'.value.ok
        /\ last'.value.error.text = "No table loaded. Open a table first."

\* C35: an open command for an existing file other than the open one closes
\* the old handle and resets current_df and current_table to none before
\* the new open is attempted, so both are none after the command whether
\* the open succeeds or fails, and a plot command issued next fails with
\* "No table loaded".
C35_OpenResetsSelection ==
  []ResetBeforeOpen /\ [][NoneAfterOpen /\ PlotNeedsTable]_vars

\* The client waits for the answer of a request before it sends the next
\* one; a compute job may still be running.
OneRequest == Cardinality({t \in threads : t.kind = "request"}) <= 1

\* serve_forever accepts a request once the one before is answered.
SerialRequest == Request /\ OneRequest'

SerialNext ==
  \/ SerialRequest \/ UnknownCommand
  \/ CloseStart \/ CloseStore \/ UnsetStore \/ CloseH5 \/ UnsetH5 \/ Untag
  \/ OpenStart \/ OpenReset \/ OpenPath \/ OpenPandas \/ OpenH5py \/ OpenTag
  \/ OpenList
  \/ ListStart \/ GetTableList \/ IterNext
  \/ TableStart \/ TableLoad \/ TableLoadFast \/ TableSet \/ PlotStart
  \/ ComputeStart \/ ComputeRunning \/ ComputeThread \/ ComputeGo
  \/ ComputeStatus
  \/ JobCompute \/ JobInsert \/ JobPublish

SerialSpec == HttpInit /\ [][SerialNext]_vars

\* C36: whenever no file is open and no command is being handled, no table
\* is selected: after a close command current_df and current_table are
\* none, so that a plot command fails with "No table loaded".
C36_NoFileNoTable == (threads = {} /\ ~is_open(Self)) => NoneSelected

\* A table command, fast or not.
TableThread(t, fast) ==
  t.kind = "request" /\ t.cmd = "table" /\ t.options.fast = fast

TableCommandEffect ==
  /\ \A t \in threads :
        (TableThread(t, TRUE) /\ StepOf(t)) =>
           /\ Selected' = Selected
           /\ (EndOf(t) /\ last'.value.ok) =>
                 ~InRegistry(state.virtual_tables, t.arg)
  /\ \A t \in threads :
        (TableThread(t, FALSE) /\ EndOf(t)) =>
           IF last'.value.ok
           THEN Selected' = <<t.loc.df, t.arg>>
           ELSE Selected' = Selected

\* C37: a table command with fast = true never changes current_df or
\* current_table, whether it succeeds or fails, and does not find a table
\* of the virtual-table registry; a successful table command without fast
\* sets current_df and current_table to the loaded table and its name, and
\* a failed one leaves both unchanged.
C37_TableCommandEffect == [][TableCommandEffect]_vars

====
